---------------------------- MODULE Spec2Model ----------------------------
(***************************************************************************)
(* A4T toolhead configurator: the part-matching engine of docs/js/app.js   *)
(* over the manifest of docs/js/partsManifest.js, the compatibility        *)
(* checker, and the asynchronous viewer update.                            *)
(*                                                                         *)
(* Specifications:                                                         *)
(*   SpecMatch   partMatchesConfig applied to bounded variants/configs     *)
(*   SpecCompat  checkCompatibility applied to bounded compatibility maps  *)
(*   SpecResolve getMatchingParts, getMatchingStlOnlyParts and             *)
(*               checkCompatibility applied to every configuration over    *)
(*               the option domains                                        *)
(*   SpecViewer  overlapping updateViewer runs over scene and activeModels *)
(*   SpecFiles   the file list of downloadParts for every configuration   *)
(*   SpecDownload the fetches and the archive of one download             *)
(*   SpecPage    the shareable state of the hash-state variant: URL hash,  *)
(*               session storage, share URLs and reset                     *)
(*   SpecOptions the option inputs under the disabling rules of            *)
(*               updateDisabledOptions, from the default configuration     *)
(***************************************************************************)
EXTENDS Integers, Sequences, FiniteSets, TLC

VARIABLES
    config,         \* state.config
    compatibility,  \* partsManifest.compatibility, the rule map in use
    script,         \* the application script the page runs: "app.js" or its
                    \* "hash-state" variant
    partData,       \* the variant handed to partMatchesConfig (SpecMatch)
    matches,        \* its result
    warnings,       \* the list checkCompatibility returned last
    matchingParts,  \* the list getMatchingParts returned last
    stlOnlyParts,   \* the list getMatchingStlOnlyParts returned last
    activeModels,   \* state.activeModels: part id -> model
    modelGroup,     \* the models in the scene group
    loadedModels,   \* state.loadedModels: the file paths in the cache
    runs,           \* the updateViewer runs started so far
    allFiles,       \* downloadParts: the file list built last
    results,        \* downloadParts: the outcome of each fetch, by position
    folder,         \* downloadParts: the zip folder, file name -> blob
    archive,        \* the archive offered to the user, if any
    alerts,         \* the alerts shown or scheduled, in order
    mainColor,      \* state.mainColor
    accentColor,    \* state.accentColor
    hash,           \* window.location.hash without its '#'
    session,        \* the sessionStorage entry 'a4t-config'
    calls,          \* the calls of loadStateFromHash and loadStateFromSession so far
    shares,         \* the calls of generateShareUrl so far
    pc              \* "input" until the function under study was applied (SpecViewer:
                    \* until DOMContentLoaded fired), then "done"

vars == <<config, compatibility, script, partData, matches, warnings, matchingParts,
          stlOnlyParts, activeModels, modelGroup, loadedModels, runs, pc,
          allFiles, results, folder, archive, alerts,
          mainColor, accentColor, hash, session, calls, shares>>

\* The variables of the download and of the page state; the resolver and
\* the viewer leave them alone.
downloadVars == <<allFiles, results, folder, archive, alerts>>
pageVars == <<mainColor, accentColor, hash, session, calls, shares>>
otherVars == <<downloadVars, pageVars>>

NoArchive == <<>>

DownloadIdle ==
    /\ allFiles = <<>>
    /\ results = <<>>
    /\ folder = <<>>
    /\ archive = NoArchive
    /\ alerts = <<>>


-----------------------------------------------------------------------------
(* JavaScript values.  A value carries its type, so that strict equality   *)
(* (===, Array.prototype.includes) and loose equality (==) differ.         *)

Str(s) == [t |-> "string", v |-> s]
Bool(b) == [t |-> "boolean", v |-> IF b THEN "true" ELSE "false"]
Undefined == [t |-> "undefined", v |-> "undefined"]
Null == [t |-> "null", v |-> "null"]
\* A number, held as the text String(x) gives: "255", "NaN", "Infinity".
Num(text) == [t |-> "number", v |-> text]
\* An object, held as the function from its own keys to their values.
Obj(props) == [t |-> "object", v |-> props]

StrMap(m) == [k \in DOMAIN m |-> Str(m[k])]
Strs(l) == [i \in DOMAIN l |-> Str(l[i])]
ListMap(m) == [k \in DOMAIN m |-> Strs(m[k])]

\* obj[key] on an object literal: undefined when the key is missing.
Get(obj, key) == IF key \in DOMAIN obj THEN obj[key] ELSE Undefined

\* if (x): undefined, null, false, "", 0 and NaN are falsy.
Truthy(x) ==
    /\ x.t # "undefined"
    /\ x.t # "null"
    /\ ~(x.t = "boolean" /\ x.v = "false")
    /\ ~(x.t = "string" /\ x.v = "")
    /\ ~(x.t = "number" /\ x.v \in {"0", "NaN"})

\* if (obj.key) for a key that holds an object or an array when present:
\* objects are truthy, even empty ones.
HasObject(obj, key) == key \in DOMAIN obj

\* a == b: same type compares the values; a boolean against a string
\* compares the numbers (true is 1, "1" is 1, other option ids are NaN);
\* undefined equals only undefined.
LooseEquals(a, b) ==
    LET num(x) == IF x.t = "boolean" THEN (IF x.v = "true" THEN "1" ELSE "0")
                  ELSE IF x.v \in {"0", "1"} THEN x.v ELSE "NaN"
    IN  IF a.t = b.t THEN a.v = b.v
        ELSE IF a.t = "undefined" \/ b.t = "undefined" THEN FALSE
        ELSE num(a) # "NaN" /\ num(a) = num(b)

\* a === b
StrictEquals(a, b) == a.t = b.t /\ a.v = b.v

\* values.includes(x)
Includes(values, x) == \E i \in DOMAIN values : StrictEquals(values[i], x)

\* The property key a value is coerced to in map[value].
ToPropertyKey(x) == x.v

-----------------------------------------------------------------------------
(* The manifest (docs/js/partsManifest.js).                                *)

basePath == "models/"
fileExtension == "gltf"

\* configOptions: the option ids of each axis, in the manifest's order.
configOptions ==
    [carriage |-> <<"xol-carriage", "cw2-tap">>,
     hotend |-> <<"dragon", "dragon-ace", "dragon-uhf-mini", "dragon-ace-volcano",
                  "rapido", "bambulab", "chube-compact", "revo-voron", "revolcano",
                  "nf-crazy", "tz-v6-stock", "tz-v6-v6", "dragon-uhf",
                  "dragon-ace-mze", "dragon-ace-volcano-mze", "rapido-uhf">>,
     extruder |-> <<"wwbmg", "sherpa-mini", "wwg2", "orbiter", "lgx-lite",
                    "vz-hextrudort">>,
     filamentCutter |-> <<"none", "crossbow">>]

\* The option ids of the axes the manifest does not list in configOptions:
\* the values its variants and the board table of updateDisabledOptions name.
wwbmgSensorsOptions == <<"no-sensors", "single-sensor", "dual-sensors">>
wwbmgIdlerOptions == <<"smooth-bearing", "bmg-dual-drive">>
toolheadBoardOptions == <<"none", "ebb36-sht36v2", "h36", "nh36", "sht36v3", "xol-pcb">>

sherpaMiniWarning == "Sherpa-Mini is not supported with UHF hotends or Crossbow cutter"

\* partsManifest.compatibility
manifestCompatibility ==
    ("sherpa-mini" :>
        [incompatibleWith |-> ListMap([hotend |-> <<"dragon-uhf", "dragon-ace-mze",
                                                  "dragon-ace-volcano-mze", "rapido-uhf">>,
                                       filamentCutter |-> <<"crossbow">>]),
         noExtruderAdapter |-> Bool(TRUE),
         warningMessage |-> Str(sherpaMiniWarning)])
    @@ ("wwg2" :> [requiresSpacing |-> Bool(TRUE)])
    @@ ("orbiter" :> [requiresSpacing |-> Bool(TRUE)])
    @@ ("dragon-uhf" :>
        [compatibleExtruders |-> Strs(<<"wwbmg", "wwg2", "orbiter">>),
         noExtruderAdapter |-> Bool(TRUE)])
    @@ ("dragon-ace-mze" :>
        [compatibleExtruders |-> Strs(<<"wwbmg", "wwg2", "orbiter">>),
         noExtruderAdapter |-> Bool(TRUE)])
    @@ ("dragon-ace-volcano-mze" :>
        [compatibleExtruders |-> Strs(<<"wwbmg", "wwg2", "orbiter">>),
         noExtruderAdapter |-> Bool(TRUE)])
    @@ ("rapido-uhf" :>
        [compatibleExtruders |-> Strs(<<"wwbmg", "wwg2", "orbiter">>),
         noExtruderAdapter |-> Bool(TRUE)])


\* The colours the script starts with: 0x444444 and 0xA62C2B.
defaultMainColor == Num("4473924")
defaultAccentColor == Num("10890283")

\* location.hash of a URL without fragment (the empty string).
NoHash == [encoding |-> "empty"]

\* Nothing was downloaded, the colours are the default ones, the URL has no
\* hash and the session no entry (getItem returns null).
OthersIdle ==
    /\ DownloadIdle
    /\ mainColor = defaultMainColor
    /\ accentColor = defaultAccentColor
    /\ hash = NoHash
    /\ session = Null
    /\ calls = <<>>
    /\ shares = <<>>
-----------------------------------------------------------------------------
(* JavaScript string functions, computed on the characters.                *)

\* String.prototype.indexOf counted from 1: the first position at which the
\* pattern occurs in the string, 0 when it does not occur.
IndexOf(str, pattern) ==
    LET hits == {i \in 1..(Len(str) - Len(pattern) + 1) :
                    SubSeq(str, i, i + Len(pattern) - 1) = pattern}
    IN  IF hits = {} THEN 0 ELSE CHOOSE i \in hits : \A j \in hits : i <= j

\* String.prototype.replace with a string pattern: the first occurrence.
replace(str, pattern, replacement) ==
    LET i == IndexOf(str, pattern)
    IN  IF i = 0 THEN str
        ELSE SubSeq(str, 1, i - 1) \o replacement
             \o SubSeq(str, i + Len(pattern), Len(str))

\* String.prototype.endsWith
endsWith(str, suffix) ==
    /\ Len(str) >= Len(suffix)
    /\ SubSeq(str, Len(str) - Len(suffix) + 1, Len(str)) = suffix

\* str.split('/').pop(): what follows the last slash.
LastSegment(str) ==
    LET slashes == {i \in 1..Len(str) : SubSeq(str, i, i) = "/"}
    IN  IF slashes = {} THEN str
        ELSE SubSeq(str, (CHOOSE i \in slashes : \A j \in slashes : j <= i) + 1, Len(str))

\* String.prototype.split for a separator of one character.
RECURSIVE Split(_, _)
Split(str, separator) ==
    LET i == IndexOf(str, separator)
    IN  IF i = 0 THEN <<str>>
        ELSE <<SubSeq(str, 1, i - 1)>> \o Split(SubSeq(str, i + 1, Len(str)), separator)

\* Array.prototype.join
RECURSIVE JoinWith(_, _)
JoinWith(list, separator) ==
    IF list = <<>> THEN ""
    ELSE IF Len(list) = 1 THEN list[1]
    ELSE list[1] \o separator \o JoinWith(Tail(list), separator)

\* partsManifest.parts.carriages (partsManifest.js lines 152-175); paths are held as their slash-separated segments, the render transform is left out.
carriages ==
  [id |-> "carriages", category |-> "Carriage", variants |-> <<
    [id |-> "carriage-xol",
       file |-> <<"Carriages", "Xol-Carriage">>,
       requires |-> StrMap([carriage |-> "xol-carriage"])],
    [id |-> "carriage-tap",
       file |-> <<"Carriages", "Tap">>,
       requires |-> StrMap([carriage |-> "cw2-tap"])]
  >>]

\* partsManifest.parts.wwbmg (partsManifest.js lines 180-229); paths are held as their slash-separated segments, the render transform is left out.
wwbmg ==
  [id |-> "wwbmg", category |-> "WW-BMG", variants |-> <<
    [id |-> "wwbmg-no-sensors",
       file |-> <<"WW-BMG", "A4T - WW-BMG">>,
       requires |-> StrMap([extruder |-> "wwbmg", wwbmgSensors |-> "no-sensors"]),
       excludeIf |-> ListMap([filamentCutter |-> <<"crossbow">>])],
    [id |-> "wwbmg-no-sensors-crossbow",
       file |-> <<"WW-BMG", "A4T - WW-BMG - Crossbow">>,
       requires |-> StrMap([extruder |-> "wwbmg", wwbmgSensors |-> "no-sensors", filamentCutter |-> "crossbow"])],
    [id |-> "wwbmg-sensor",
       file |-> <<"WW-BMG", "A4T - WW-BMG - Sensor">>,
       requires |-> StrMap([extruder |-> "wwbmg"]),
       requiresAny |-> ListMap([wwbmgSensors |-> <<"single-sensor", "dual-sensors">>]),
       excludeIf |-> ListMap([filamentCutter |-> <<"crossbow">>])],
    [id |-> "wwbmg-sensor-crossbow",
       file |-> <<"WW-BMG", "A4T - WW-BMG - Sensor - Crossbow">>,
       requires |-> StrMap([extruder |-> "wwbmg", filamentCutter |-> "crossbow"]),
       requiresAny |-> ListMap([wwbmgSensors |-> <<"single-sensor", "dual-sensors">>])]
  >>]

\* partsManifest.parts.cowlings (partsManifest.js lines 234-580); paths are held as their slash-separated segments, the render transform is left out.
cowlings ==
  [id |-> "cowlings", category |-> "Cowling", variants |-> <<
    [id |-> "cowling-dragon-rapido-xol",
       file |-> <<"Cowlings", "A4T Cowling - Dragon_Rapido [xol-carriage]">>,
       requires |-> StrMap([carriage |-> "xol-carriage"]),
       requiresAny |-> ListMap([hotend |-> <<"dragon", "dragon-ace", "dragon-uhf-mini", "dragon-ace-volcano", "rapido">>]),
       excludeIf |-> ListMap([extruder |-> <<"wwg2", "orbiter">>])],
    [id |-> "cowling-dragon-rapido-xol-g2",
       file |-> <<"Cowlings", "A4T Cowling - Dragon_Rapido - G2-Orbiter spacing [xol-carriage]">>,
       requires |-> StrMap([carriage |-> "xol-carriage"]),
       requiresAny |-> ListMap([hotend |-> <<"dragon", "dragon-ace", "dragon-uhf-mini", "dragon-ace-volcano", "rapido">>, extruder |-> <<"wwg2", "orbiter">>])],
    [id |-> "cowling-dragon-rapido-cw2",
       file |-> <<"Cowlings", "A4T Cowling - Dragon_Rapido [cw2-tap]">>,
       requires |-> StrMap([carriage |-> "cw2-tap"]),
       requiresAny |-> ListMap([hotend |-> <<"dragon", "dragon-ace", "dragon-uhf-mini", "dragon-ace-volcano", "rapido">>]),
       excludeIf |-> ListMap([extruder |-> <<"wwg2", "orbiter">>])],
    [id |-> "cowling-dragon-rapido-cw2-g2",
       file |-> <<"Cowlings", "A4T Cowling - Dragon_Rapido - G2-Orbiter spacing [cw2-tap]">>,
       requires |-> StrMap([carriage |-> "cw2-tap"]),
       requiresAny |-> ListMap([hotend |-> <<"dragon", "dragon-ace", "dragon-uhf-mini", "dragon-ace-volcano", "rapido">>, extruder |-> <<"wwg2", "orbiter">>])],
    [id |-> "cowling-dragon-uhf-xol",
       file |-> <<"Cowlings", "A4T Cowling - Dragon-Rapido UHF [xol-carriage]">>,
       requires |-> StrMap([carriage |-> "xol-carriage"]),
       requiresAny |-> ListMap([hotend |-> <<"dragon-uhf", "dragon-ace-mze", "dragon-ace-volcano-mze", "rapido-uhf">>]),
       excludeIf |-> ListMap([extruder |-> <<"wwg2", "orbiter", "lgx-lite", "vz-hextrudort", "sherpa-mini">>])],
    [id |-> "cowling-dragon-uhf-xol-g2",
       file |-> <<"Cowlings", "A4T Cowling - Dragon-Rapido UHF - G2-Orb Spacing [xol-carriage]">>,
       requires |-> StrMap([carriage |-> "xol-carriage"]),
       requiresAny |-> ListMap([hotend |-> <<"dragon-uhf", "dragon-ace-mze", "dragon-ace-volcano-mze", "rapido-uhf">>, extruder |-> <<"wwg2", "orbiter">>])],
    [id |-> "cowling-dragon-uhf-cw2",
       file |-> <<"Cowlings", "A4T Cowling - Dragon-Rapido UHF [cw2-tap]">>,
       requires |-> StrMap([carriage |-> "cw2-tap"]),
       requiresAny |-> ListMap([hotend |-> <<"dragon-uhf", "dragon-ace-mze", "dragon-ace-volcano-mze", "rapido-uhf">>]),
       excludeIf |-> ListMap([extruder |-> <<"wwg2", "orbiter", "lgx-lite", "vz-hextrudort", "sherpa-mini">>])],
    [id |-> "cowling-dragon-uhf-cw2-g2",
       file |-> <<"Cowlings", "A4T Cowling - Dragon-Rapido UHF - G2-Orb Spacing [cw2-tap]">>,
       requires |-> StrMap([carriage |-> "cw2-tap"]),
       requiresAny |-> ListMap([hotend |-> <<"dragon-uhf", "dragon-ace-mze", "dragon-ace-volcano-mze", "rapido-uhf">>, extruder |-> <<"wwg2", "orbiter">>])],
    [id |-> "cowling-bambulab-xol",
       file |-> <<"Cowlings", "A4T Cowling - Bambulab [xol-carriage]">>,
       requires |-> StrMap([carriage |-> "xol-carriage", hotend |-> "bambulab"]),
       excludeIf |-> ListMap([extruder |-> <<"wwg2", "orbiter">>])],
    [id |-> "cowling-bambulab-xol-g2",
       file |-> <<"Cowlings", "A4T Cowling - Bambulab - G2-Orbiter spacing [xol-carriage]">>,
       requires |-> StrMap([carriage |-> "xol-carriage", hotend |-> "bambulab"]),
       requiresAny |-> ListMap([extruder |-> <<"wwg2", "orbiter">>])],
    [id |-> "cowling-bambulab-cw2",
       file |-> <<"Cowlings", "A4T Cowling - Bambulab [cw2-tap]">>,
       requires |-> StrMap([carriage |-> "cw2-tap", hotend |-> "bambulab"]),
       excludeIf |-> ListMap([extruder |-> <<"wwg2", "orbiter">>])],
    [id |-> "cowling-bambulab-cw2-g2",
       file |-> <<"Cowlings", "A4T Cowling - Bambulab - G2-Orbiter spacing [cw2-tap]">>,
       requires |-> StrMap([carriage |-> "cw2-tap", hotend |-> "bambulab"]),
       requiresAny |-> ListMap([extruder |-> <<"wwg2", "orbiter">>])],
    [id |-> "cowling-chube-xol",
       file |-> <<"Cowlings", "A4T Cowling - Chube-Compact [xol-carriage]">>,
       requires |-> StrMap([carriage |-> "xol-carriage", hotend |-> "chube-compact"]),
       excludeIf |-> ListMap([extruder |-> <<"wwg2", "orbiter">>])],
    [id |-> "cowling-chube-xol-g2",
       file |-> <<"Cowlings", "A4T Cowling - Chube-Compact - G2-Orbiter spacing [xol-carriage]">>,
       requires |-> StrMap([carriage |-> "xol-carriage", hotend |-> "chube-compact"]),
       requiresAny |-> ListMap([extruder |-> <<"wwg2", "orbiter">>])],
    [id |-> "cowling-chube-cw2",
       file |-> <<"Cowlings", "A4T Cowling - Chube-Compact [cw2-tap]">>,
       requires |-> StrMap([carriage |-> "cw2-tap", hotend |-> "chube-compact"]),
       excludeIf |-> ListMap([extruder |-> <<"wwg2", "orbiter">>])],
    [id |-> "cowling-chube-cw2-g2",
       file |-> <<"Cowlings", "A4T Cowling - Chube-Compact - G2-Orbiter spacing [cw2-tap]">>,
       requires |-> StrMap([carriage |-> "cw2-tap", hotend |-> "chube-compact"]),
       requiresAny |-> ListMap([extruder |-> <<"wwg2", "orbiter">>])],
    [id |-> "cowling-revo-xol",
       file |-> <<"Cowlings", "A4T Cowling - Revo-Voron [xol-carriage]">>,
       requires |-> StrMap([carriage |-> "xol-carriage", hotend |-> "revo-voron"]),
       excludeIf |-> ListMap([extruder |-> <<"wwg2", "orbiter">>])],
    [id |-> "cowling-revo-xol-g2",
       file |-> <<"Cowlings", "A4T Cowling - Revo-Voron - G2-Orbiter spacing [xol-carriage]">>,
       requires |-> StrMap([carriage |-> "xol-carriage", hotend |-> "revo-voron"]),
       requiresAny |-> ListMap([extruder |-> <<"wwg2", "orbiter">>])],
    [id |-> "cowling-revo-cw2",
       file |-> <<"Cowlings", "A4T Cowling - Revo-Voron [cw2-tap]">>,
       requires |-> StrMap([carriage |-> "cw2-tap", hotend |-> "revo-voron"]),
       excludeIf |-> ListMap([extruder |-> <<"wwg2", "orbiter">>])],
    [id |-> "cowling-revo-cw2-g2",
       file |-> <<"Cowlings", "A4T Cowling - Revo-Voron - G2-Orbiter spacing [cw2-tap]">>,
       requires |-> StrMap([carriage |-> "cw2-tap", hotend |-> "revo-voron"]),
       requiresAny |-> ListMap([extruder |-> <<"wwg2", "orbiter">>])],
    [id |-> "cowling-revolcano-xol",
       file |-> <<"Cowlings", "A4T Cowling - ReVolcano [xol-carriage]">>,
       requires |-> StrMap([carriage |-> "xol-carriage", hotend |-> "revolcano"]),
       excludeIf |-> ListMap([extruder |-> <<"wwg2", "orbiter">>])],
    [id |-> "cowling-revolcano-xol-g2",
       file |-> <<"Cowlings", "A4T Cowling - ReVolcano - G2-Orbiter spacing [xol-carriage]">>,
       requires |-> StrMap([carriage |-> "xol-carriage", hotend |-> "revolcano"]),
       requiresAny |-> ListMap([extruder |-> <<"wwg2", "orbiter">>])],
    [id |-> "cowling-revolcano-cw2",
       file |-> <<"Cowlings", "A4T Cowling - ReVolcano [cw2-tap]">>,
       requires |-> StrMap([carriage |-> "cw2-tap", hotend |-> "revolcano"]),
       excludeIf |-> ListMap([extruder |-> <<"wwg2", "orbiter">>])],
    [id |-> "cowling-revolcano-cw2-g2",
       file |-> <<"Cowlings", "A4T Cowling - ReVolcano - G2-Orbiter spacing [cw2-tap]">>,
       requires |-> StrMap([carriage |-> "cw2-tap", hotend |-> "revolcano"]),
       requiresAny |-> ListMap([extruder |-> <<"wwg2", "orbiter">>])],
    [id |-> "cowling-nfcrazy-xol",
       file |-> <<"Cowlings", "A4T Cowling - NF-Crazy [xol-carriage]">>,
       requires |-> StrMap([carriage |-> "xol-carriage", hotend |-> "nf-crazy"]),
       excludeIf |-> ListMap([extruder |-> <<"wwg2", "orbiter">>])],
    [id |-> "cowling-nfcrazy-xol-g2",
       file |-> <<"Cowlings", "A4T Cowling - NF-Crazy - G2-Orbiter spacing [xol-carriage]">>,
       requires |-> StrMap([carriage |-> "xol-carriage", hotend |-> "nf-crazy"]),
       requiresAny |-> ListMap([extruder |-> <<"wwg2", "orbiter">>])],
    [id |-> "cowling-nfcrazy-cw2",
       file |-> <<"Cowlings", "A4T Cowling - NF-Crazy [cw2-tap]">>,
       requires |-> StrMap([carriage |-> "cw2-tap", hotend |-> "nf-crazy"]),
       excludeIf |-> ListMap([extruder |-> <<"wwg2", "orbiter">>])],
    [id |-> "cowling-nfcrazy-cw2-g2",
       file |-> <<"Cowlings", "A4T Cowling - NF-Crazy - G2-Orbiter spacing [cw2-tap]">>,
       requires |-> StrMap([carriage |-> "cw2-tap", hotend |-> "nf-crazy"]),
       requiresAny |-> ListMap([extruder |-> <<"wwg2", "orbiter">>])],
    [id |-> "cowling-tzv6-xol",
       file |-> <<"Cowlings", "A4T Cowling - TZ-V6-2.0 [xol-carriage]">>,
       requires |-> StrMap([carriage |-> "xol-carriage"]),
       requiresAny |-> ListMap([hotend |-> <<"tz-v6-stock", "tz-v6-v6">>]),
       excludeIf |-> ListMap([extruder |-> <<"wwg2", "orbiter">>])],
    [id |-> "cowling-tzv6-xol-g2",
       file |-> <<"Cowlings", "A4T Cowling - TZ-V6-2.0 - G2-Orbiter spacing [xol-carriage]">>,
       requires |-> StrMap([carriage |-> "xol-carriage"]),
       requiresAny |-> ListMap([hotend |-> <<"tz-v6-stock", "tz-v6-v6">>, extruder |-> <<"wwg2", "orbiter">>])],
    [id |-> "cowling-tzv6-cw2",
       file |-> <<"Cowlings", "A4T Cowling - TZ-V6-2.0 [cw2-tap]">>,
       requires |-> StrMap([carriage |-> "cw2-tap"]),
       requiresAny |-> ListMap([hotend |-> <<"tz-v6-stock", "tz-v6-v6">>]),
       excludeIf |-> ListMap([extruder |-> <<"wwg2", "orbiter">>])],
    [id |-> "cowling-tzv6-cw2-g2",
       file |-> <<"Cowlings", "A4T Cowling - TZ-V6-2.0 - G2-Orbiter spacing [cw2-tap]">>,
       requires |-> StrMap([carriage |-> "cw2-tap"]),
       requiresAny |-> ListMap([hotend |-> <<"tz-v6-stock", "tz-v6-v6">>, extruder |-> <<"wwg2", "orbiter">>])]
  >>]

\* partsManifest.parts.hotendDucts (partsManifest.js lines 585-689); paths are held as their slash-separated segments, the render transform is left out.
hotendDucts ==
  [id |-> "hotendDucts", category |-> "Hotend Fan Duct", variants |-> <<
    [id |-> "duct-dragon",
       file |-> <<"Hotend Fan Ducts", "A4T HE Fan Duct - Dragon">>,
       requiresAny |-> ListMap([hotend |-> <<"dragon", "dragon-ace", "dragon-uhf-mini", "dragon-ace-volcano">>])],
    [id |-> "duct-rapido",
       file |-> <<"Hotend Fan Ducts", "A4T HE Fan Duct - Rapido">>,
       requires |-> StrMap([hotend |-> "rapido"])],
    [id |-> "duct-dragon-uhf",
       file |-> <<"Hotend Fan Ducts", "A4T HE Fan Duct - Dragon">>,
       requiresAny |-> ListMap([hotend |-> <<"dragon-uhf", "dragon-ace-mze", "dragon-ace-volcano-mze">>])],
    [id |-> "duct-rapido-uhf",
       file |-> <<"Hotend Fan Ducts", "A4T HE Fan Duct - Rapido">>,
       requires |-> StrMap([hotend |-> "rapido-uhf"])],
    [id |-> "duct-bambulab",
       file |-> <<"Hotend Fan Ducts", "A4T HE Duct - Bambulab">>,
       requires |-> StrMap([hotend |-> "bambulab"])],
    [id |-> "duct-chube",
       file |-> <<"Hotend Fan Ducts", "A4T HE Duct - Chube-Compact">>,
       requires |-> StrMap([hotend |-> "chube-compact"])],
    [id |-> "duct-revo",
       file |-> <<"Hotend Fan Ducts", "A4T HE Duct - Revo-Voron">>,
       requires |-> StrMap([hotend |-> "revo-voron"])],
    [id |-> "duct-revolcano",
       file |-> <<"Hotend Fan Ducts", "A4T HE Duct - ReVolcano">>,
       requires |-> StrMap([hotend |-> "revolcano"])],
    [id |-> "duct-nfcrazy",
       file |-> <<"Hotend Fan Ducts", "A4T HE Duct - NF-Crazy">>,
       requires |-> StrMap([hotend |-> "nf-crazy"])],
    [id |-> "duct-tzv6-stock",
       file |-> <<"Hotend Fan Ducts", "A4T HE Duct - TZ-V6-2.0 [Stock Nozzle]">>,
       requires |-> StrMap([hotend |-> "tz-v6-stock"])],
    [id |-> "duct-tzv6-v6",
       file |-> <<"Hotend Fan Ducts", "A4T HE Duct - TZ-V6-2.0 [V6 Nozzle]">>,
       requires |-> StrMap([hotend |-> "tz-v6-v6"])]
  >>]

\* partsManifest.parts.hotendSpacers (partsManifest.js lines 694-708); paths are held as their slash-separated segments, the render transform is left out.
hotendSpacers ==
  [id |-> "hotendSpacers", category |-> "Hotend Spacer", variants |-> <<
    [id |-> "spacer-tzv6-stock",
       file |-> <<"Hotend Fan Ducts", "A4T HE Duct - TZ-V6-2.0 [Stock Nozzle] - Spacer">>,
       requires |-> StrMap([hotend |-> "tz-v6-stock"])]
  >>]

\* partsManifest.parts.extruderAdapters (partsManifest.js lines 713-860); paths are held as their slash-separated segments, the render transform is left out.
extruderAdapters ==
  [id |-> "extruderAdapters", category |-> "Extruder Adapter", variants |-> <<
    [id |-> "adapter-wwbmg-xol",
       file |-> <<"Extruder Adapters", "A4T - WWBMG - Extruder Adapter [xol-carriage]">>,
       requires |-> StrMap([carriage |-> "xol-carriage", extruder |-> "wwbmg"]),
       excludeIf |-> ListMap([filamentCutter |-> <<"crossbow">>])],
    [id |-> "adapter-wwbmg-cw2",
       file |-> <<"Extruder Adapters", "A4T - WWBMG - Extruder Adapter [cw2-tap]">>,
       requires |-> StrMap([carriage |-> "cw2-tap", extruder |-> "wwbmg"]),
       excludeIf |-> ListMap([filamentCutter |-> <<"crossbow">>])],
    [id |-> "adapter-wwg2-xol",
       file |-> <<"Extruder Adapters", "A4T - WWG2 - Extruder Adapter [xol-carriage]">>,
       requires |-> StrMap([carriage |-> "xol-carriage", extruder |-> "wwg2"]),
       excludeIf |-> ListMap([filamentCutter |-> <<"crossbow">>])],
    [id |-> "adapter-wwg2-cw2",
       file |-> <<"Extruder Adapters", "A4T - WWG2 - Extruder Adapter [cw2-tap]">>,
       requires |-> StrMap([carriage |-> "cw2-tap", extruder |-> "wwg2"]),
       excludeIf |-> ListMap([filamentCutter |-> <<"crossbow">>])],
    [id |-> "adapter-orbiter-xol",
       file |-> <<"Extruder Adapters", "A4T - Orbiter - Extruder Adapter [xol-carriage]">>,
       requires |-> StrMap([carriage |-> "xol-carriage", extruder |-> "orbiter"]),
       excludeIf |-> ListMap([filamentCutter |-> <<"crossbow">>])],
    [id |-> "adapter-orbiter-cw2",
       file |-> <<"Extruder Adapters", "A4T - Orbiter - Extruder Adapter [cw2-tap]">>,
       requires |-> StrMap([carriage |-> "cw2-tap", extruder |-> "orbiter"]),
       excludeIf |-> ListMap([filamentCutter |-> <<"crossbow">>])],
    [id |-> "adapter-lgx-xol",
       file |-> <<"Extruder Adapters", "A4T - LGX-L_VZHex Adapter [xol-carriage]">>,
       requires |-> StrMap([carriage |-> "xol-carriage"]),
       requiresAny |-> ListMap([extruder |-> <<"lgx-lite", "vz-hextrudort">>]),
       excludeIf |-> ListMap([filamentCutter |-> <<"crossbow">>])],
    [id |-> "adapter-lgx-cw2",
       file |-> <<"Extruder Adapters", "A4T - LGX-L_VZHex Adapter [cw2-tap]">>,
       requires |-> StrMap([carriage |-> "cw2-tap"]),
       requiresAny |-> ListMap([extruder |-> <<"lgx-lite", "vz-hextrudort">>]),
       excludeIf |-> ListMap([filamentCutter |-> <<"crossbow">>])],
    [id |-> "crossbow-wwbmg",
       file |-> <<"Extruder Adapters", "Crossbow cutter holder - WW-BMG (Sherpa-Mini spacing)">>,
       stlPath |-> <<"Extruder Adapters", "For Crossbow filament cutter", "Crossbow cutter holder - WW-BMG (Sherpa-Mini spacing).stl">>,
       requires |-> StrMap([extruder |-> "wwbmg", filamentCutter |-> "crossbow"])],
    [id |-> "crossbow-wwg2",
       file |-> <<"Extruder Adapters", "Crossbow cutter holder - WW-G2 (Oribiter2 Spacing)">>,
       stlPath |-> <<"Extruder Adapters", "For Crossbow filament cutter", "Crossbow cutter holder - WW-G2 (Oribiter2 Spacing).stl">>,
       requires |-> StrMap([extruder |-> "wwg2", filamentCutter |-> "crossbow"])],
    [id |-> "crossbow-orbiter",
       file |-> <<"Extruder Adapters", "Crossbow cutter holder - Orbiter2">>,
       stlPath |-> <<"Extruder Adapters", "For Crossbow filament cutter", "Crossbow cutter holder - Orbiter2.stl">>,
       requires |-> StrMap([extruder |-> "orbiter", filamentCutter |-> "crossbow"])],
    [id |-> "crossbow-lgx",
       file |-> <<"Extruder Adapters", "Crossbow cutter holder - LGX-L_VZHex">>,
       stlPath |-> <<"Extruder Adapters", "For Crossbow filament cutter", "Crossbow cutter holder - LGX-L_VZHex.stl">>,
       requires |-> StrMap([filamentCutter |-> "crossbow"]),
       requiresAny |-> ListMap([extruder |-> <<"lgx-lite", "vz-hextrudort">>])],
    [id |-> "crossbow-assembly",
       file |-> <<"Extruder Adapters", "CrossbowAssembly">>,
       visualOnly |-> Bool(TRUE),
       requires |-> StrMap([filamentCutter |-> "crossbow"])]
  >>]

\* partsManifest.stlOnlyParts.backflowInhibitors (partsManifest.js lines 952-968); paths are held as their slash-separated segments, the render transform is left out.
backflowInhibitors ==
  [id |-> "backflowInhibitors", category |-> "Backflow Inhibitors", alwaysInclude |-> Bool(TRUE), variants |-> <<
    [id |-> "backflow-inhibitor",
       stlFile |-> <<"Backflow Inhibitors", "A4T Backflow Inhibitor [x2].stl">>,
       quantity |-> 2,
       requires |-> StrMap(<<>>)],
    [id |-> "backflow-install-tool",
       stlFile |-> <<"Backflow Inhibitors", "A4T Backflow Inhibitor install spacer tool.stl">>,
       quantity |-> 1,
       requires |-> StrMap(<<>>)]
  >>]

\* partsManifest.stlOnlyParts.ledHolderFilter (partsManifest.js lines 970-993); paths are held as their slash-separated segments, the render transform is left out.
ledHolderFilter ==
  [id |-> "ledHolderFilter", category |-> "LED Holder + Filter", alwaysInclude |-> Bool(TRUE), variants |-> <<
    [id |-> "led-carrier",
       stlFile |-> <<"LED Holder + Filter", "A4T LED Carrier.stl">>,
       quantity |-> 1,
       requires |-> StrMap(<<>>)],
    [id |-> "led-diffuser",
       stlFile |-> <<"LED Holder + Filter", "A4T LED Diffuser[translucent].stl">>,
       quantity |-> 1,
       printNote |-> "Print in translucent filament",
       requires |-> StrMap(<<>>)],
    [id |-> "led-filter",
       stlFile |-> <<"LED Holder + Filter", "A4T LED Filter[opaque].stl">>,
       quantity |-> 1,
       printNote |-> "Print in opaque filament",
       requires |-> StrMap(<<>>)]
  >>]

\* partsManifest.stlOnlyParts.toolheadBoardMounts (partsManifest.js lines 998-1052); paths are held as their slash-separated segments, the render transform is left out.
toolheadBoardMounts ==
  [id |-> "toolheadBoardMounts", category |-> "Toolhead Board Mount", variants |-> <<
    [id |-> "thb-wwbmg-ebb36",
       stlFile |-> <<"Toolhead Board Mounts", "A4T - THB Mount - WWBMG.stl">>,
       requires |-> StrMap([extruder |-> "wwbmg", toolheadBoard |-> "ebb36-sht36v2", carriage |-> "xol-carriage"])],
    [id |-> "thb-wwg2-ebb36",
       stlFile |-> <<"Toolhead Board Mounts", "A4T - THB Mount - WWG2.stl">>,
       requires |-> StrMap([extruder |-> "wwg2", toolheadBoard |-> "ebb36-sht36v2", carriage |-> "xol-carriage"])],
    [id |-> "thb-sherpa-ebb36",
       stlFile |-> <<"Toolhead Board Mounts", "A4T - THB Mount - Sherpa-Mini.stl">>,
       requires |-> StrMap([extruder |-> "sherpa-mini", toolheadBoard |-> "ebb36-sht36v2", carriage |-> "xol-carriage"])],
    [id |-> "thb-lgx-ebb36",
       stlFile |-> <<"Toolhead Board Mounts", "A4T - THB Mount - LGX-L.stl">>,
       requires |-> StrMap([extruder |-> "lgx-lite", toolheadBoard |-> "ebb36-sht36v2", carriage |-> "xol-carriage"])],
    [id |-> "thb-vzhex-ebb36",
       stlFile |-> <<"Toolhead Board Mounts", "A4T - THB Mount - VZ-Hex.stl">>,
       requires |-> StrMap([extruder |-> "vz-hextrudort", toolheadBoard |-> "ebb36-sht36v2", carriage |-> "xol-carriage"])],
    [id |-> "thb-wwbmg-h36",
       stlFile |-> <<"Toolhead Board Mounts", "A4T - THB Mount - WWBMG - H36.stl">>,
       requires |-> StrMap([extruder |-> "wwbmg", toolheadBoard |-> "h36", carriage |-> "xol-carriage"])],
    [id |-> "thb-wwbmg-nh36",
       stlFile |-> <<"Toolhead Board Mounts", "A4T - THB Mount - WWBMG - NH36.STL">>,
       requires |-> StrMap([extruder |-> "wwbmg", toolheadBoard |-> "nh36", carriage |-> "xol-carriage"])],
    [id |-> "thb-wwbmg-sht36v3",
       stlFile |-> <<"Toolhead Board Mounts", "A4T - THB Mount - WWBMG SHT36v3.stl">>,
       requires |-> StrMap([extruder |-> "wwbmg", toolheadBoard |-> "sht36v3", carriage |-> "xol-carriage"])],
    [id |-> "thb-wwbmg-xolpcb",
       stlFile |-> <<"Toolhead Board Mounts", "A4T - Xol_PCB Mount - WWBMG.stl">>,
       requires |-> StrMap([extruder |-> "wwbmg", toolheadBoard |-> "xol-pcb", carriage |-> "xol-carriage"])],
    [id |-> "thb-orbiter-xolpcb",
       stlFile |-> <<"Toolhead Board Mounts", "A4T - Xol_PCB Mount - Orbiter v2.0.stl">>,
       requires |-> StrMap([extruder |-> "orbiter", toolheadBoard |-> "xol-pcb", carriage |-> "xol-carriage"])]
  >>]

\* partsManifest.stlOnlyParts.wwbmgExtruder (partsManifest.js lines 1057-1145); paths are held as their slash-separated segments, the render transform is left out.
wwbmgExtruder ==
  [id |-> "wwbmgExtruder", category |-> "Extruder", variants |-> <<
    [id |-> "wwbmg-nosensor-main",
       stlFile |-> <<"WW-BMG for A4T", "Standard (no sensor)", "A4T - WWBMG - Main_Body [Sherpa-Mini spacing].stl">>,
       requires |-> StrMap([extruder |-> "wwbmg", wwbmgSensors |-> "no-sensors"]),
       excludeIf |-> ListMap([filamentCutter |-> <<"crossbow">>])],
    [id |-> "wwbmg-nosensor-motor",
       stlFile |-> <<"WW-BMG for A4T", "Standard (no sensor)", "A4T - WWBMG - Motor Plate.stl">>,
       requires |-> StrMap([extruder |-> "wwbmg", wwbmgSensors |-> "no-sensors"]),
       excludeIf |-> ListMap([filamentCutter |-> <<"crossbow">>])],
    [id |-> "wwbmg-nosensor-crossbow-main",
       stlFile |-> <<"WW-BMG for A4T", "Standard (no sensor)", "A4T - WWBMG - Main_Body [Sherpa-Mini spacing] - Crossbow.stl">>,
       requires |-> StrMap([extruder |-> "wwbmg", wwbmgSensors |-> "no-sensors", filamentCutter |-> "crossbow"])],
    [id |-> "wwbmg-nosensor-crossbow-motor",
       stlFile |-> <<"WW-BMG for A4T", "Standard (no sensor)", "A4T - WWBMG - Motor Plate.stl">>,
       requires |-> StrMap([extruder |-> "wwbmg", wwbmgSensors |-> "no-sensors", filamentCutter |-> "crossbow"])],
    [id |-> "wwbmg-single-main",
       stlFile |-> <<"WW-BMG for A4T", "Single Sensor", "A4T - WWBMG - Main_Body [Sherpa-Mini spacing] Single Sensor.stl">>,
       requires |-> StrMap([extruder |-> "wwbmg", wwbmgSensors |-> "single-sensor"]),
       excludeIf |-> ListMap([filamentCutter |-> <<"crossbow">>])],
    [id |-> "wwbmg-single-motor",
       stlFile |-> <<"WW-BMG for A4T", "Single Sensor", "A4T - WWBMG - Motor_Plate - Single Sensor.stl">>,
       requires |-> StrMap([extruder |-> "wwbmg", wwbmgSensors |-> "single-sensor"]),
       excludeIf |-> ListMap([filamentCutter |-> <<"crossbow">>])],
    [id |-> "wwbmg-single-crossbow-main",
       stlFile |-> <<"WW-BMG for A4T", "Single Sensor", "A4T - WWBMG - Main_Body [Sherpa-Mini spacing] Single Sensor - Crossbow.stl">>,
       requires |-> StrMap([extruder |-> "wwbmg", wwbmgSensors |-> "single-sensor", filamentCutter |-> "crossbow"])],
    [id |-> "wwbmg-single-crossbow-motor",
       stlFile |-> <<"WW-BMG for A4T", "Single Sensor", "A4T - WWBMG - Motor_Plate - Single Sensor.stl">>,
       requires |-> StrMap([extruder |-> "wwbmg", wwbmgSensors |-> "single-sensor", filamentCutter |-> "crossbow"])],
    [id |-> "wwbmg-dual-main",
       stlFile |-> <<"WW-BMG for A4T", "Dual Sensor", "A4T - WWBMG - Main_Body [Sherpa-Mini spacing] Dual Sensor.stl">>,
       requires |-> StrMap([extruder |-> "wwbmg", wwbmgSensors |-> "dual-sensors"]),
       excludeIf |-> ListMap([filamentCutter |-> <<"crossbow">>])],
    [id |-> "wwbmg-dual-motor",
       stlFile |-> <<"WW-BMG for A4T", "Dual Sensor", "A4T - WWBMG - Motor_Plate - Dual Sensor.stl">>,
       requires |-> StrMap([extruder |-> "wwbmg", wwbmgSensors |-> "dual-sensors"]),
       excludeIf |-> ListMap([filamentCutter |-> <<"crossbow">>])],
    [id |-> "wwbmg-dual-crossbow-main",
       stlFile |-> <<"WW-BMG for A4T", "Dual Sensor", "A4T - WWBMG - Main_Body [Sherpa-Mini spacing] Dual Sensor - Crossbow.stl">>,
       requires |-> StrMap([extruder |-> "wwbmg", wwbmgSensors |-> "dual-sensors", filamentCutter |-> "crossbow"])],
    [id |-> "wwbmg-dual-crossbow-motor",
       stlFile |-> <<"WW-BMG for A4T", "Dual Sensor", "A4T - WWBMG - Motor_Plate - Dual Sensor.stl">>,
       requires |-> StrMap([extruder |-> "wwbmg", wwbmgSensors |-> "dual-sensors", filamentCutter |-> "crossbow"])],
    [id |-> "wwbmg-tensionarm-smooth",
       stlFile |-> <<"WW-BMG for A4T", "Tension Arm", "A4T - WWBMG - Beefy_Tension_Arm - Smooth_Idler.stl">>,
       requires |-> StrMap([extruder |-> "wwbmg", wwbmgIdler |-> "smooth-bearing"])],
    [id |-> "wwbmg-tensionarm-bmg",
       stlFile |-> <<"WW-BMG for A4T", "Tension Arm", "A4T - WWBMG - Beefy_Tension_Arm - BMG_Idler.stl">>,
       requires |-> StrMap([extruder |-> "wwbmg", wwbmgIdler |-> "bmg-dual-drive"])]
  >>]

\* partsManifest.parts, in insertion order
parts == <<carriages, wwbmg, cowlings, hotendDucts, hotendSpacers, extruderAdapters>>

\* partsManifest.stlOnlyParts, in insertion order
stlOnlyPartsManifest ==
    <<backflowInhibitors, ledHolderFilter, toolheadBoardMounts, wwbmgExtruder>>

-----------------------------------------------------------------------------
(* Configuration logic (docs/js/app.js).                                   *)

\* state.config as the script creates it
defaultConfig ==
    [carriage |-> Str("xol-carriage"),
     hotend |-> Str("dragon"),
     extruder |-> Str("wwbmg"),
     wwbmgSensors |-> Str("no-sensors"),
     wwbmgIdler |-> Str("smooth-bearing"),
     toolheadBoard |-> Str("none"),
     filamentCutter |-> Str("none"),
     hexCowl |-> Bool(FALSE)]

\* The three predicate loops of partMatchesConfig, each returning false at
\* its first failing entry.
RequiresFails(p, cfg) ==
    /\ HasObject(p, "requires")
    /\ \E key \in DOMAIN p.requires : ~StrictEquals(Get(cfg, key), p.requires[key])

\* requiresAny read as one disjunction over all listed axes: it fails only
\* when no listed axis holds a listed value.
RequiresAnyFailsAcrossAxes(p, cfg) ==
    /\ HasObject(p, "requiresAny")
    /\ \A key \in DOMAIN p.requiresAny : ~Includes(p.requiresAny[key], Get(cfg, key))

RequiresAnyFails(p, cfg) ==
    /\ HasObject(p, "requiresAny")
    /\ \E key \in DOMAIN p.requiresAny : ~Includes(p.requiresAny[key], Get(cfg, key))

\* excludeIf left unread.
ExcludeIfIgnored(p, cfg) == FALSE

ExcludeIfHits(p, cfg) ==
    /\ HasObject(p, "excludeIf")
    /\ \E key \in DOMAIN p.excludeIf : Includes(p.excludeIf[key], Get(cfg, key))

\* A matcher whose final return is reached only through the always flag.
partMatchesConfigAlwaysOnly(p, cfg) ==
    IF RequiresFails(p, cfg) THEN FALSE
    ELSE IF RequiresAnyFails(p, cfg) THEN FALSE
    ELSE IF ExcludeIfHits(p, cfg) THEN FALSE
    ELSE IF Truthy(Get(p, "always")) THEN TRUE
    ELSE FALSE

\* partMatchesConfig(partData, config): requires, requiresAny, excludeIf, and
\* only then the always flag.
partMatchesConfig(p, cfg) ==
    IF RequiresFails(p, cfg) THEN FALSE
    ELSE IF RequiresAnyFails(p, cfg) THEN FALSE
    ELSE IF ExcludeIfHits(p, cfg) THEN FALSE
    ELSE IF Truthy(Get(p, "always")) THEN TRUE
    ELSE TRUE

RECURSIVE ConcatAll(_)
ConcatAll(ss) == IF ss = <<>> THEN <<>> ELSE Head(ss) \o ConcatAll(Tail(ss))

\* The inner loop of getMatchingParts / getMatchingStlOnlyParts over one
\* category: { id, category, categoryLabel, ...partData } for each match.
MatchingOf(cat, cfg) ==
    LET vs == SelectSeq(cat.variants, LAMBDA p : partMatchesConfig(p, cfg))
    IN  [i \in DOMAIN vs |->
            vs[i] @@ [category |-> cat.id, categoryLabel |-> cat.category]]

\* partsManifest.compatibility[value]?.noExtruderAdapter === true
NoExtruderAdapter(value) ==
    LET key == ToPropertyKey(value)
    IN  /\ key \in DOMAIN compatibility
        /\ StrictEquals(Get(compatibility[key], "noExtruderAdapter"), Bool(TRUE))

\* getMatchingParts reading the noExtruderAdapter flag of the extruder only.
getMatchingPartsExtruderFlagOnly(cfg) ==
    LET skipExtruderAdapter == NoExtruderAdapter(Get(cfg, "extruder"))
    IN  ConcatAll([i \in DOMAIN parts |->
            IF skipExtruderAdapter /\ parts[i].id = "extruderAdapters"
            THEN <<>>
            ELSE MatchingOf(parts[i], cfg)])

\* getMatchingParts(config)
getMatchingParts(cfg) ==
    LET skipExtruderAdapter ==
            NoExtruderAdapter(Get(cfg, "extruder")) \/ NoExtruderAdapter(Get(cfg, "hotend"))
    IN  ConcatAll([i \in DOMAIN parts |->
            IF skipExtruderAdapter /\ parts[i].id = "extruderAdapters"
            THEN <<>>
            ELSE MatchingOf(parts[i], cfg)])

\* getMatchingStlOnlyParts(config)
getMatchingStlOnlyParts(cfg) ==
    ConcatAll([i \in DOMAIN stlOnlyPartsManifest |->
                  MatchingOf(stlOnlyPartsManifest[i], cfg)])

\* One rule's warnings with the message pushed at most once.
RuleWarningsOnce(value, cfg) ==
    LET key == ToPropertyKey(value)
    IN  IF key \in DOMAIN compatibility /\ HasObject(compatibility[key], "incompatibleWith")
        THEN LET rule == compatibility[key]
             IN  IF \E axis \in DOMAIN rule.incompatibleWith :
                        Includes(rule.incompatibleWith[axis], Get(cfg, axis))
                 THEN <<Get(rule, "warningMessage")>>
                 ELSE <<>>
        ELSE <<>>

\* The warnings one rule contributes: its warningMessage once per
\* incompatibleWith axis whose list includes the configuration's value.
RuleWarnings(value, cfg) ==
    LET key == ToPropertyKey(value)
    IN  IF key \in DOMAIN compatibility /\ HasObject(compatibility[key], "incompatibleWith")
        THEN LET rule == compatibility[key]
                 hits == {axis \in DOMAIN rule.incompatibleWith :
                             Includes(rule.incompatibleWith[axis], Get(cfg, axis))}
             IN  [i \in 1..Cardinality(hits) |-> Get(rule, "warningMessage")]
        ELSE <<>>

\* checkCompatibility(config): only the selected extruder's rule is read.
checkCompatibility(cfg) == RuleWarnings(Get(cfg, "extruder"), cfg)

Range(s) == {s[i] : i \in DOMAIN s}
Ids(list) == {list[i].id : i \in DOMAIN list}
OfCategory(list, cat) == SelectSeq(list, LAMBDA p : p.category = cat)

-----------------------------------------------------------------------------
(* SpecMatch: partMatchesConfig on bounded variants and configurations.    *)

MatchAxes == {"hotend", "hexCowl"}

\* Values a configuration holds: option ids, the string "1", boolean true.
MatchConfigValues == {Str("dragon"), Str("rapido"), Str("1"), Bool(TRUE)}
MatchRequiresValues == {Str("dragon"), Bool(TRUE)}
MatchAnyLists == {Strs(<<"dragon">>), Strs(<<"dragon", "rapido">>)}
MatchExcludeLists == {Strs(<<"rapido">>), <<Str("dragon"), Bool(TRUE)>>}

\* Every map from a subset of the axes to the given values.
PartialMaps(axes, values) == UNION {[d -> values] : d \in SUBSET axes}

\* A field that is absent, or present with one of the given values.
Optional(field, values) == {<<>>} \cup {field :> x : x \in values}

MatchVariants ==
    {a @@ r @@ ra @@ e :
        a \in Optional("always", {Bool(TRUE), Bool(FALSE)}),
        r \in Optional("requires", PartialMaps(MatchAxes, MatchRequiresValues)),
        ra \in Optional("requiresAny", PartialMaps(MatchAxes, MatchAnyLists)),
        e \in Optional("excludeIf", PartialMaps(MatchAxes, MatchExcludeLists))}

\* Configurations, some with an axis missing.
MatchConfigs == PartialMaps(MatchAxes, MatchConfigValues)

NoVariant == <<>>
NoRuns == <<>>

ViewerIdle ==
    /\ activeModels = <<>>
    /\ modelGroup = {}
    /\ loadedModels = {}
    /\ runs = NoRuns

ResolverIdle ==
    /\ warnings = <<>>
    /\ matchingParts = <<>>
    /\ stlOnlyParts = <<>>

InitMatch ==
    /\ pc = "input"
    /\ config \in MatchConfigs
    /\ partData \in MatchVariants
    /\ matches = FALSE
    /\ compatibility = manifestCompatibility
    /\ script = "app.js"
    /\ ResolverIdle
    /\ ViewerIdle
    /\ OthersIdle

\* One call partMatchesConfig(partData, config).
Match ==
    /\ pc = "input"
    /\ pc' = "done"
    /\ matches' = partMatchesConfig(partData, config)
    /\ UNCHANGED otherVars
    /\ UNCHANGED <<config, compatibility, script, partData, warnings, matchingParts,
                   stlOnlyParts, activeModels, modelGroup, loadedModels, runs>>

NextMatch == Match

SpecMatch == InitMatch /\ [][NextMatch]_vars

-----------------------------------------------------------------------------
(* SpecCompat: checkCompatibility on bounded compatibility maps.           *)

CompatMessage(key) == Str("warning of " \o key)

\* incompatibleWith maps a rule may carry.
CompatIncompatibleWith ==
    {<<>>,
     ListMap([filamentCutter |-> <<"crossbow">>]),
     ListMap([hotend |-> <<"dragon-uhf">>]),
     ListMap([extruder |-> <<"sherpa-mini">>]),
     ListMap([hotend |-> <<"dragon-uhf">>, filamentCutter |-> <<"crossbow">>]),
     ListMap([extruder |-> <<"sherpa-mini">>, filamentCutter |-> <<"crossbow">>])}

\* The rule of one key: none, one without incompatibleWith, or one with it.
CompatRules(key) ==
    {<<>>, key :> [noExtruderAdapter |-> Bool(TRUE)]}
    \cup {key :> [incompatibleWith |-> m, warningMessage |-> CompatMessage(key)] :
            m \in CompatIncompatibleWith}

\* Maps with a rule for an extruder id and a rule for a hotend id.
CompatMaps == {e @@ h : e \in CompatRules("sherpa-mini"), h \in CompatRules("dragon-uhf")}

CompatConfigs ==
    {[defaultConfig EXCEPT !.extruder = Str(e), !.hotend = Str(h), !.filamentCutter = Str(c)] :
        e \in {"wwbmg", "sherpa-mini"}, h \in {"dragon", "dragon-uhf"},
        c \in {"none", "crossbow"}}

InitCompat ==
    /\ pc = "input"
    /\ config \in CompatConfigs
    /\ compatibility \in CompatMaps
    /\ script = "app.js"
    /\ partData = NoVariant
    /\ matches = FALSE
    /\ ResolverIdle
    /\ ViewerIdle
    /\ OthersIdle

\* One call checkCompatibility(config).
CheckCompatibility ==
    /\ pc = "input"
    /\ pc' = "done"
    /\ warnings' = checkCompatibility(config)
    /\ UNCHANGED otherVars
    /\ UNCHANGED <<config, compatibility, script, partData, matches, matchingParts,
                   stlOnlyParts, activeModels, modelGroup, loadedModels, runs>>

NextCompat == CheckCompatibility

SpecCompat == InitCompat /\ [][NextCompat]_vars

-----------------------------------------------------------------------------
(* SpecResolve: the resolution functions on every configuration over the   *)
(* option domains of the manifest.                                          *)

\* Every configuration the option inputs can select.
OptionConfigs ==
    {[carriage |-> Str(ca), hotend |-> Str(ho), extruder |-> Str(ex),
      wwbmgSensors |-> Str(se), wwbmgIdler |-> Str(id), toolheadBoard |-> Str(bo),
      filamentCutter |-> Str(fc), hexCowl |-> Bool(hx)] :
        ca \in Range(configOptions.carriage), ho \in Range(configOptions.hotend),
        ex \in Range(configOptions.extruder), se \in Range(wwbmgSensorsOptions),
        id \in Range(wwbmgIdlerOptions), bo \in Range(toolheadBoardOptions),
        fc \in Range(configOptions.filamentCutter), hx \in BOOLEAN}

InitResolve ==
    /\ pc = "input"
    /\ config \in OptionConfigs
    /\ compatibility = manifestCompatibility
    /\ script = "app.js"
    /\ partData = NoVariant
    /\ matches = FALSE
    /\ ResolverIdle
    /\ ViewerIdle
    /\ OthersIdle

\* What updateViewer resolves from the configuration: getMatchingParts,
\* getMatchingStlOnlyParts and checkCompatibility.
Resolve ==
    /\ pc = "input"
    /\ pc' = "done"
    /\ matchingParts' = getMatchingParts(config)
    /\ stlOnlyParts' = getMatchingStlOnlyParts(config)
    /\ warnings' = checkCompatibility(config)
    /\ UNCHANGED otherVars
    /\ UNCHANGED <<config, compatibility, script, partData, matches, activeModels,
                   modelGroup, loadedModels, runs>>

NextResolve == Resolve

SpecResolve == InitResolve /\ [][NextResolve]_vars

-----------------------------------------------------------------------------
(* The shareable state of the hash-state variant of the script: the URL    *)
(* hash, session storage, validateConfig and the loaders.                  *)

validKeys ==
    <<"carriage", "hotend", "extruder", "wwbmgSensors", "wwbmgIdler",
      "toolheadBoard", "filamentCutter", "hexCowl">>

\* A call that returned a value, and a call that threw.
Returned(value) == [ok |-> TRUE, value |-> value]
Thrown == [ok |-> FALSE]

\* A JSON text is held as the document it spells (scalars as literals, an
\* object as the function from its keys), with a mark when it holds a
\* character above U+00FF; NotJson is a text JSON.parse rejects.
JsonText(doc, wide) == [syntax |-> "json", doc |-> doc, wide |-> wide]
NotJson == [syntax |-> "other", wide |-> FALSE]

\* A string of the value holds a character above U+00FF, written \uXXXX
\* here.
RECURSIVE HoldsWide(_)
HoldsWide(x) ==
    IF x.t = "object"
    THEN \E k \in DOMAIN x.v : IndexOf(k, "\\u") # 0 \/ HoldsWide(x.v[k])
    ELSE x.t = "string" /\ IndexOf(x.v, "\\u") # 0

\* The document JSON.stringify writes for a value: NaN and Infinity become
\* null, a property whose value is undefined is left out.
RECURSIVE DocumentOf(_)
DocumentOf(x) ==
    IF x.t = "object"
    THEN Obj([k \in {k \in DOMAIN x.v : x.v[k].t # "undefined"} |-> DocumentOf(x.v[k])])
    ELSE IF x.t = "number" /\ x.v \in {"NaN", "Infinity", "-Infinity"} THEN Null
    ELSE x

\* JSON.stringify: a string is written with its characters as they are, so
\* the text is wide when a string of the value is.
stringify(x) == JsonText(DocumentOf(x), HoldsWide(x))

\* The value JSON.parse reads from a document: the number literal 1e400 is
\* beyond the largest double and is read as Infinity.
RECURSIVE ValueOf(_)
ValueOf(doc) ==
    IF doc.t = "object"
    THEN Obj([k \in DOMAIN doc.v |-> ValueOf(doc.v[k])])
    ELSE IF doc.t = "number" /\ doc.v = "1e400" THEN Num("Infinity")
    ELSE doc

\* JSON.parse
parse(text) == IF text.syntax = "json" THEN Returned(ValueOf(text.doc)) ELSE Thrown

\* A hash is the base64 form of a text, or characters atob rejects.
Base64(text) == [encoding |-> "base64", text |-> text]
NotBase64 == [encoding |-> "none"]

\* btoa: throws on a character above U+00FF.
btoa(text) == IF text.wide THEN Thrown ELSE Returned(Base64(text))

\* atob
atob(h) == IF h.encoding = "base64" THEN Returned(h.text) ELSE Thrown

\* value.key for any value: undefined unless the value is an object that
\* has the key.
Prop(x, key) == IF x.t = "object" THEN Get(x.v, key) ELSE Undefined

\* The page state the loaders work on.
PageState(cfg, main, accent) == [config |-> cfg, mainColor |-> main, accentColor |-> accent]

getShareableState(st) ==
    Obj([config |-> Obj(st.config), mainColor |-> st.mainColor,
         accentColor |-> st.accentColor])

\* validateConfig: the allowlisted own keys of the snapshot's config; the
\* call config.hasOwnProperty throws when the snapshot has a key of that
\* name (a JSON value is never a function).
validateConfig(c) ==
    IF c.t # "object" THEN Returned(<<>>)
    ELSE IF "hasOwnProperty" \in DOMAIN c.v THEN Thrown
    ELSE Returned([k \in Range(validKeys) \cap DOMAIN c.v |-> c.v[k]])

encodeStateToHash(shareableState) == btoa(stringify(shareableState))

\* A decodeHashToState that answers an undecodable hash with an empty
\* object.
decodeHashToStateOrEmpty(h) ==
    LET text == atob(h)
    IN  IF ~text.ok THEN Obj(<<>>)
        ELSE IF ~parse(text.value).ok THEN Obj(<<>>)
        ELSE parse(text.value).value

\* decodeHashToState: null when atob or JSON.parse throws.
decodeHashToState(h) ==
    LET text == atob(h)
    IN  IF ~text.ok THEN Null
        ELSE IF ~parse(text.value).ok THEN Null
        ELSE parse(text.value).value

invalidUrlAlert ==
    "The shared configuration URL is invalid or corrupted. Loading your saved configuration instead."

\* The merge both loaders make of a decoded snapshot: the validated config
\* is assigned over state.config, the colours are taken when present.  The
\* result is thrown when validateConfig throws, before anything is assigned.
Merge(st, decoded) ==
    LET c == Prop(decoded, "config")
        validated == IF Truthy(c) THEN validateConfig(c) ELSE Returned(<<>>)
        main == Prop(decoded, "mainColor")
        accent == Prop(decoded, "accentColor")
    IN  IF ~validated.ok THEN Thrown
        ELSE Returned([config |-> validated.value @@ st.config,
                       mainColor |-> IF main # Undefined THEN main ELSE st.mainColor,
                       accentColor |-> IF accent # Undefined THEN accent ELSE st.accentColor])

\* loadStateFromHash on the hash h: the state it leaves, what it returned
\* (or that it threw) and the alert it scheduled, if any.
loadStateFromHash(st, h) ==
    IF h = NoHash THEN [state |-> st, result |-> Returned(FALSE), alerts |-> <<>>]
    ELSE LET decoded == decodeHashToState(h)
         IN  IF ~Truthy(decoded)
             THEN [state |-> st, result |-> Returned(FALSE), alerts |-> <<invalidUrlAlert>>]
             ELSE IF ~Merge(st, decoded).ok
             THEN [state |-> st, result |-> Thrown, alerts |-> <<>>]
             ELSE [state |-> Merge(st, decoded).value, result |-> Returned(TRUE),
                   alerts |-> <<>>]

\* loadStateFromSession on the stored entry (null when there is none):
\* every exception is caught.
loadStateFromSession(st, stored) ==
    IF stored = Null THEN [state |-> st, result |-> Returned(FALSE)]
    ELSE IF ~parse(stored).ok THEN [state |-> st, result |-> Returned(FALSE)]
    ELSE LET decoded == parse(stored).value
         IN  IF ~Truthy(decoded) THEN [state |-> st, result |-> Returned(FALSE)]
             ELSE IF ~Merge(st, decoded).ok
             THEN [state |-> st, result |-> Returned(FALSE)]
             ELSE [state |-> Merge(st, decoded).value, result |-> Returned(TRUE)]

\* What saveStateToSession stores.
saveStateToSession(st) == stringify(getShareableState(st))

\* The record kept of a loader call.
Call(fn, input, before, after, result) ==
    [fn |-> fn, input |-> input, before |-> before, after |-> after, result |-> result]
-----------------------------------------------------------------------------
(* The viewer (docs/js/app.js): the option inputs, updateDisabledOptions,  *)
(* loadModel and the asynchronous updateViewer.                            *)

\* The most updateViewer runs a behaviour starts.
MaxRuns == 2

\* An input name is held as its hyphen-separated words.  The words that
\* follow a hyphen in the option inputs, with their first letter upper-cased.
UpperFirst ==
    ("sensors" :> "Sensors") @@ ("idler" :> "Idler") @@ ("board" :> "Board")
    @@ ("cutter" :> "Cutter") @@ ("cowl" :> "Cowl")

\* name.replace(/-([a-z])/g, (_, letter) => letter.toUpperCase())
RECURSIVE ToCamelCase(_)
ToCamelCase(name) ==
    IF Len(name) = 1 THEN name[1]
    ELSE ToCamelCase(SubSeq(name, 1, Len(name) - 1)) \o UpperFirst[name[Len(name)]]

uhfHotends == <<"dragon-uhf", "dragon-ace-mze", "dragon-ace-volcano-mze", "rapido-uhf">>

boardCompatibility ==
    ("ebb36-sht36v2" :> <<"wwbmg", "wwg2", "sherpa-mini", "lgx-lite", "vz-hextrudort">>)
    @@ ("h36" :> <<"wwbmg">>)
    @@ ("nh36" :> <<"wwbmg">>)
    @@ ("sht36v3" :> <<"wwbmg">>)
    @@ ("xol-pcb" :> <<"wwbmg", "orbiter">>)

\* The board table of the hash-state variant: nh36 lists orbiter too.
boardCompatibilityHashState ==
    ("ebb36-sht36v2" :> <<"wwbmg", "wwg2", "sherpa-mini", "lgx-lite", "vz-hextrudort">>)
    @@ ("h36" :> <<"wwbmg">>)
    @@ ("nh36" :> <<"wwbmg", "orbiter">>)
    @@ ("sht36v3" :> <<"wwbmg">>)
    @@ ("xol-pcb" :> <<"wwbmg", "orbiter">>)

\* The board table of the script the page runs.
boardTable == IF script = "hash-state" THEN boardCompatibilityHashState ELSE boardCompatibility

\* shouldDisable as updateDisabledOptions computes it for one input.
shouldDisable(cfg, inputName, inputValue) ==
    LET isUHF == Includes(Strs(uhfHotends), Get(cfg, "hotend"))
        isCrossbow == StrictEquals(Get(cfg, "filamentCutter"), Str("crossbow"))
        isSherpaMini == StrictEquals(Get(cfg, "extruder"), Str("sherpa-mini"))
    IN  \/ /\ inputName = <<"extruder">>
           /\ inputValue = "sherpa-mini"
           /\ (isCrossbow \/ isUHF)
        \/ /\ inputName = <<"extruder">>
           /\ inputValue \in {"lgx-lite", "vz-hextrudort"}
           /\ isUHF
        \/ /\ inputName = <<"filament", "cutter">>
           /\ inputValue = "crossbow"
           /\ (isSherpaMini \/ isUHF)
        \/ /\ inputName = <<"hotend">>
           /\ inputValue \in Range(uhfHotends)
           /\ isCrossbow
        \/ /\ inputName = <<"toolhead", "board">>
           /\ inputValue # "none"
           /\ \/ ~StrictEquals(Get(cfg, "carriage"), Str("xol-carriage"))
              \/ /\ inputValue \in DOMAIN boardTable
                 /\ ~Includes(Strs(boardTable[inputValue]), Get(cfg, "extruder"))

\* Array.prototype.join('/')
RECURSIVE Join(_)
Join(segments) ==
    IF segments = <<>> THEN ""
    ELSE IF Len(segments) = 1 THEN segments[1]
    ELSE segments[1] \o "/" \o Join(Tail(segments))

\* The file path loadModel builds: for a hex cowling "Hex " goes in front
\* of the file name.
filePath(part, isHexCowl) ==
    IF isHexCowl /\ part.category = "cowlings"
    THEN LET n == Len(part.file)
         IN  basePath
             \o Join(SubSeq(part.file, 1, n - 1) \o <<"Hex " \o part.file[n]>>)
             \o "." \o fileExtension
    ELSE basePath \o Join(part.file) \o "." \o fileExtension

\* The model object run r obtains for a part; null when the load failed.
Model(r, id) == <<r, id>>
NoModel == <<>>

\* The active cowlings whose stored hex state differs from config.hexCowl.
HexChanged(am, cfg) ==
    {id \in DOMAIN am :
        /\ am[id].userData.category = "cowlings"
        /\ ~StrictEquals(Bool(am[id].userData.isHexCowl), Get(cfg, "hexCowl"))}

\* A toRemove that holds only the active ids that no longer match.
toRemoveStaleOnly(mp, am, cfg) == DOMAIN am \ Ids(mp)

\* toRemove: the active ids that no longer match, and the cowlings to reload.
toRemove(mp, am, cfg) == (DOMAIN am \ Ids(mp)) \cup HexChanged(am, cfg)

\* A toAdd that holds every matching part.
toAddEveryPart(mp, am, cfg) == mp

\* toAdd: the matching parts that are not active, then the matching parts
\* among the cowlings to reload (at most one cowling matches, so the order
\* of the active-model map does not show).
toAdd(mp, am, cfg) ==
    SelectSeq(mp, LAMBDA p : p.id \notin DOMAIN am)
    \o SelectSeq(mp, LAMBDA p : p.id \in HexChanged(am, cfg))

\* toAdd of the hash-state variant: the matching parts whose id is in
\* toAddSet, in the order of matchingParts.
toAddSet(mp, am, cfg) ==
    SelectSeq(mp, LAMBDA p : p.id \notin DOMAIN am \/ p.id \in HexChanged(am, cfg))

\* The viewer variables as one record.
World ==
    [activeModels |-> activeModels, modelGroup |-> modelGroup,
     loadedModels |-> loadedModels, runs |-> runs, matchingParts |-> matchingParts,
     stlOnlyParts |-> stlOnlyParts, warnings |-> warnings]

Becomes(w) ==
    /\ activeModels' = w.activeModels
    /\ modelGroup' = w.modelGroup
    /\ loadedModels' = w.loadedModels
    /\ runs' = w.runs
    /\ matchingParts' = w.matchingParts
    /\ stlOnlyParts' = w.stlOnlyParts
    /\ warnings' = w.warnings

\* One iteration of the add loop up to its await: loadModel answers from
\* the cache (the run resumes with a clone) or asks the loader and waits.
EnterIteration(w, cfg, r, i) ==
    LET part == w.runs[r].toAdd[i]
        isHexCowl == Truthy(Get(cfg, "hexCowl")) /\ part.category = "cowlings"
        path == filePath(part, isHexCowl)
        hit == path \in w.loadedModels
    IN  [w EXCEPT !.runs[r] =
            [@ EXCEPT !.index = i,
                      !.isHexCowl = isHexCowl,
                      !.filePath = path,
                      !.pc = IF hit THEN "ready" ELSE "wait",
                      !.model = IF hit THEN Model(r, part.id) ELSE NoModel]]

\* updatePartsList and updateWarnings: app.js calls them after the add loop,
\* the hash-state variant before the removals.
RefreshLists(w, cfg, r) ==
    [w EXCEPT !.matchingParts = w.runs[r].matchingParts,
              !.stlOnlyParts = getMatchingStlOnlyParts(cfg),
              !.warnings = checkCompatibility(cfg)]

\* The end of a run.
Finish(w, cfg, r) ==
    LET w1 == IF script = "app.js" THEN RefreshLists(w, cfg, r) ELSE w
    IN  [w1 EXCEPT !.runs[r] = [@ EXCEPT !.pc = "done",
                                         !.index = Len(w.runs[r].toAdd) + 1,
                                         !.isHexCowl = FALSE,
                                         !.filePath = "",
                                         !.model = NoModel,
                                         !.endActive = w.activeModels]]

\* The add loop from iteration i to the next await or to the end of the
\* run; the hash-state variant passes over a part that is already active.
RECURSIVE Continue(_, _, _, _)
Continue(w, cfg, r, i) ==
    IF i > Len(w.runs[r].toAdd) THEN Finish(w, cfg, r)
    ELSE IF script = "hash-state" /\ w.runs[r].toAdd[i].id \in DOMAIN w.activeModels
         THEN Continue(w, cfg, r, i + 1)
         ELSE EnterIteration(w, cfg, r, i)

\* updateViewer from its call to its first await (or to its end when there
\* is nothing to load): the difference is computed and the removals are made.
Begin(w, cfg) ==
    LET r == Len(w.runs) + 1
        am == w.activeModels
        mp == getMatchingParts(cfg)
        rem == toRemove(mp, am, cfg) \cap DOMAIN am
        add == IF script = "app.js" THEN toAdd(mp, am, cfg) ELSE toAddSet(mp, am, cfg)
        unfinished == {q \in DOMAIN w.runs : w.runs[q].pc # "done"}
        run == [pc |-> "wait", matchingParts |-> mp, toAdd |-> add,
                index |-> 1, isHexCowl |-> FALSE, filePath |-> "", model |-> NoModel,
                startConfig |-> cfg, startActive |-> am, removed |-> rem,
                interleaved |-> unfinished # {}, failed |-> FALSE,
                failedIds |-> {}, added |-> <<>>, endActive |-> <<>>]
        w1 == [w EXCEPT
                !.activeModels = [id \in DOMAIN am \ rem |-> am[id]],
                !.modelGroup = @ \ {am[id].model : id \in rem},
                !.runs = Append([q \in DOMAIN w.runs |->
                                    IF q \in unfinished
                                    THEN [w.runs[q] EXCEPT !.interleaved = TRUE]
                                    ELSE w.runs[q]], run)]
        w2 == IF script = "hash-state" THEN RefreshLists(w1, cfg, r) ELSE w1
    IN  Continue(w2, cfg, r, 1)

\* A loop that a failed load ends: no further part of toAdd is visited.
NextPartOrStop(run) ==
    IF run.model = NoModel THEN Len(run.toAdd) + 1 ELSE run.index + 1

\* The index the add loop goes on with after an iteration, a skipped one
\* (continue) included: the next part of toAdd.
NextPart(run) == run.index + 1

\* The rest of an iteration after its await: a loaded model is added to the
\* scene and recorded as active, a failed load is skipped; then the next
\* iteration up to its await, or the end of the run.
AfterAwait(w, cfg, r) ==
    LET run == w.runs[r]
        part == run.toAdd[run.index]
        w1 == IF run.model = NoModel THEN w
              ELSE [w EXCEPT
                      !.modelGroup = @ \cup {run.model},
                      !.activeModels =
                          (part.id :> [model |-> run.model,
                                      userData |-> [category |-> part.category,
                                                    isHexCowl |-> run.isHexCowl]]) @@ @,
                      !.runs[r].added = Append(@, part.id)]
    IN  Continue(w1, cfg, r, NextPart(run))

\* No continuation of a run is pending: the event loop can take a user event.
MicrotasksDrained == \A r \in DOMAIN runs : runs[r].pc # "ready"

-----------------------------------------------------------------------------
(* SpecViewer: the page after loading, option changes over a few inputs,   *)
(* loads that succeed or fail, and the runs of updateViewer they start.    *)

ViewerRadioInputs ==
    {[name |-> <<"hotend">>, value |-> v] : v \in {"dragon", "rapido"}}

ViewerCheckboxInputs ==
    {[name |-> <<"filament", "cutter">>, value |-> "crossbow"],
     [name |-> <<"hex", "cowl">>, value |-> "on"]}

InitViewer ==
    /\ pc = "input"
    /\ config = defaultConfig
    /\ compatibility = manifestCompatibility
    /\ script \in {"app.js", "hash-state"}
    /\ partData = NoVariant
    /\ matches = FALSE
    /\ ResolverIdle
    /\ ViewerIdle
    /\ OthersIdle

\* saveStateToSession at the end of a listener of the hash-state variant;
\* app.js keeps no session entry.
Saved(cfg) ==
    /\ session' = IF script = "hash-state"
                  THEN saveStateToSession(PageState(cfg, mainColor, accentColor))
                  ELSE session
    /\ UNCHANGED <<mainColor, accentColor, hash, calls, shares>>

\* The DOMContentLoaded listener: the listeners are set up and updateViewer
\* is called for the initial configuration.  The hash-state variant first
\* loads the state from the hash or, when that returned false, from the
\* session, clears the hash, and saves the state after updateViewer; an
\* exception of loadStateFromHash ends the listener.
DOMContentLoaded ==
    LET st0 == PageState(config, mainColor, accentColor)
        fromHash == loadStateFromHash(st0, hash)
        hasLoadedFromHash == fromHash.result.ok /\ fromHash.result.value
        fromSession == loadStateFromSession(fromHash.state, session)
        st == IF hasLoadedFromHash THEN fromHash.state ELSE fromSession.state
        hashCall == Call("loadStateFromHash", hash, st0, fromHash.state, fromHash.result)
        sessionCall == Call("loadStateFromSession", session, fromHash.state,
                            fromSession.state, fromSession.result)
    IN  /\ pc = "input"
        /\ IF script = "app.js"
           THEN /\ pc' = "done"
                /\ Becomes(Begin(World, config))
                /\ UNCHANGED <<config, otherVars>>
           ELSE IF ~fromHash.result.ok
           THEN /\ pc' = "failed"
                /\ calls' = Append(calls, hashCall)
                /\ UNCHANGED <<config, warnings, matchingParts, stlOnlyParts,
                               activeModels, modelGroup, loadedModels, runs,
                               downloadVars, mainColor, accentColor, hash, session,
                               shares>>
           ELSE /\ pc' = "done"
                /\ config' = st.config
                /\ mainColor' = st.mainColor
                /\ accentColor' = st.accentColor
                /\ hash' = NoHash
                /\ alerts' = alerts \o fromHash.alerts
                /\ calls' = calls \o (IF hasLoadedFromHash THEN <<hashCall>>
                                      ELSE <<hashCall, sessionCall>>)
                /\ Becomes(Begin(World, st.config))
                /\ session' = saveStateToSession(st)
                /\ UNCHANGED <<allFiles, results, folder, archive, shares>>
        /\ UNCHANGED <<compatibility, script, partData, matches>>

\* The change listener of a radio input: fired when an enabled radio that
\* was not checked becomes checked.
RadioChange(input) ==
    LET configKey == ToCamelCase(input.name)
        value == Str(input.value)
        cfg == (configKey :> value) @@ config
    IN  /\ pc = "done"
        /\ MicrotasksDrained
        /\ Len(runs) < MaxRuns
        /\ ~shouldDisable(config, input.name, input.value)
        /\ Get(config, configKey) # value
        /\ config' = cfg
        /\ Becomes(Begin(World, cfg))
        /\ Saved(cfg)
        /\ UNCHANGED downloadVars
        /\ UNCHANGED <<compatibility, script, partData, matches, pc>>

\* The change listener of a checkbox: fired when an enabled checkbox is
\* toggled; hexCowl takes the boolean, the others the value or 'none'.
CheckboxChange(input) ==
    LET configKey == ToCamelCase(input.name)
        wasChecked == IF configKey = "hexCowl"
                      THEN Get(config, configKey) = Bool(TRUE)
                      ELSE Get(config, configKey) = Str(input.value)
        checked == ~wasChecked
        value == IF configKey = "hexCowl" THEN Bool(checked)
                 ELSE IF checked THEN Str(input.value) ELSE Str("none")
        cfg == (configKey :> value) @@ config
    IN  /\ pc = "done"
        /\ MicrotasksDrained
        /\ Len(runs) < MaxRuns
        /\ ~shouldDisable(config, input.name, input.value)
        /\ config' = cfg
        /\ Becomes(Begin(World, cfg))
        /\ Saved(cfg)
        /\ UNCHANGED downloadVars
        /\ UNCHANGED <<compatibility, script, partData, matches, pc>>

\* A callback of gltfLoader.load for the load run r waits for: on success
\* the model is cached and the promise resolves with it, on error the
\* promise resolves with null.
LoadDone(r, ok) ==
    /\ r \in DOMAIN runs
    /\ runs[r].pc = "wait"
    /\ runs' = [runs EXCEPT ![r] =
                  [@ EXCEPT !.pc = "ready",
                            !.model = IF ok THEN Model(r, runs[r].toAdd[runs[r].index].id)
                                      ELSE NoModel,
                            !.failed = @ \/ ~ok,
                            !.failedIds = IF ok THEN @
                                          ELSE @ \cup {runs[r].toAdd[runs[r].index].id}]]
    /\ loadedModels' = IF ok THEN loadedModels \cup {runs[r].filePath} ELSE loadedModels
    /\ UNCHANGED otherVars
    /\ UNCHANGED <<config, compatibility, script, partData, matches, warnings, matchingParts,
                   stlOnlyParts, activeModels, modelGroup, pc>>

\* Run r resumes after its await.
Resume(r) ==
    /\ r \in DOMAIN runs
    /\ runs[r].pc = "ready"
    /\ Becomes(AfterAwait(World, config, r))
    /\ UNCHANGED otherVars
    /\ UNCHANGED <<config, compatibility, script, partData, matches, pc>>

NextViewer ==
    \/ DOMContentLoaded
    \/ \E input \in ViewerRadioInputs : RadioChange(input)
    \/ \E input \in ViewerCheckboxInputs : CheckboxChange(input)
    \/ \E r \in 1..MaxRuns, ok \in BOOLEAN : LoadDone(r, ok)
    \/ \E r \in 1..MaxRuns : Resume(r)

SpecViewer == InitViewer /\ [][NextViewer]_vars

-----------------------------------------------------------------------------
(* downloadParts (docs/js/app.js): the download file list, the fetches and *)
(* the archive.                                                            *)

GITHUB_STL_BASE == "https://raw.githubusercontent.com/Armchair-Heavy-Industries/A4T/main/STL/"
GITHUB_3MF_BASE == "https://raw.githubusercontent.com/Armchair-Heavy-Industries/A4T/main/3mf/"

\* if (obj.key) for a key that holds a path when present.
HasPath(obj, key) == key \in DOMAIN obj /\ obj[key] # <<>>

\* if (file.key) for a flag of a file descriptor: a missing flag is falsy.
Flag(file, key) == key \in DOMAIN file /\ file[key]

\* A filter that keeps the parts flagged visualOnly.
printableOrVisual(p) ==
    /\ p.category # "carriages"
    /\ p.category # "wwbmg"
    /\ p.category # "hotendSpacers"

\* The filter of renderedFiles.
printable(p) ==
    /\ p.category # "carriages"
    /\ p.category # "wwbmg"
    /\ p.category # "hotendSpacers"
    /\ ~Truthy(Get(p, "visualOnly"))

\* A descriptor derived from the model file even when the part has a stlPath.
renderedFileOfModel(p) ==
    [path |-> Join(p.file) \o ".stl", isStl |-> TRUE,
     isCowling |-> p.category = "cowlings"]

\* The descriptor of a rendered part.
renderedFile(p) ==
    IF HasPath(p, "stlPath")
    THEN [path |-> Join(p.stlPath), isStl |-> TRUE]
    ELSE LET baseName == replace(Join(p.file), ".glb", "")
             stlPath == IF endsWith(baseName, ".stl") THEN baseName
                        ELSE baseName \o ".stl"
         IN  [path |-> stlPath, isStl |-> TRUE, isCowling |-> p.category = "cowlings"]

renderedFiles(matching) ==
    LET kept == SelectSeq(matching, printable)
    IN  [i \in DOMAIN kept |-> renderedFile(kept[i])]

stlOnlyFiles(stlOnly) ==
    [i \in DOMAIN stlOnly |-> [path |-> Join(stlOnly[i].stlFile), isStl |-> TRUE]]

\* A test that takes every file for a cowling.
isAnyFile(file) == TRUE

\* if (file.isCowling)
isCowlingFile(file) == Flag(file, "isCowling")

\* A hex descriptor that keeps the directory and the name of the STL.
hexFileInPlace(file) ==
    [path |-> replace(file.path, ".stl", "") \o ".3mf", isStl |-> FALSE, is3mf |-> TRUE]

\* The descriptor of the hex 3MF that replaces a cowling's STL.
hexFile(file) ==
    LET fileName == LastSegment(file.path)
        baseName == replace(fileName, ".stl", "")
        hexFileName == "Hex " \o baseName \o ".3mf"
    IN  [path |-> "Cowlings [Hexagon multi-colour]/" \o hexFileName,
         isStl |-> FALSE, is3mf |-> TRUE]

\* allFiles as downloadParts builds it for a configuration.
downloadFileList(cfg) ==
    LET files == renderedFiles(getMatchingParts(cfg))
                 \o stlOnlyFiles(getMatchingStlOnlyParts(cfg))
    IN  IF Truthy(Get(cfg, "hexCowl"))
        THEN [i \in DOMAIN files |->
                 IF isCowlingFile(files[i]) THEN hexFile(files[i]) ELSE files[i]]
        ELSE files

\* The base URL a file is fetched from.
baseUrl(file) == IF Flag(file, "is3mf") THEN GITHUB_3MF_BASE ELSE GITHUB_STL_BASE

-----------------------------------------------------------------------------
(* SpecFiles: the file list of downloadParts for every configuration over  *)
(* the option domains.                                                     *)

InitFiles ==
    /\ pc = "input"
    /\ config \in OptionConfigs
    /\ compatibility = manifestCompatibility
    /\ script = "app.js"
    /\ partData = NoVariant
    /\ matches = FALSE
    /\ ResolverIdle
    /\ ViewerIdle
    /\ OthersIdle

\* downloadParts up to the file list.
BuildFileList ==
    /\ pc = "input"
    /\ pc' = "done"
    /\ matchingParts' = getMatchingParts(config)
    /\ stlOnlyParts' = getMatchingStlOnlyParts(config)
    /\ allFiles' = downloadFileList(config)
    /\ UNCHANGED <<config, compatibility, script, partData, matches, warnings,
                   activeModels, modelGroup, loadedModels, runs,
                   results, folder, archive, alerts>>
    /\ UNCHANGED pageVars

NextFiles == BuildFileList

SpecFiles == InitFiles /\ [][NextFiles]_vars

-----------------------------------------------------------------------------
(* SpecDownload: one click on the download button, the parallel fetches in *)
(* any order and with any outcome, and the archive.                        *)

\* The characters of the file paths that encodeURIComponent escapes; it
\* keeps letters, digits and - _ . ! ~ * ' ( ).
PercentCode ==
    (" " :> "%20") @@ ("+" :> "%2B") @@ ("/" :> "%2F") @@ ("[" :> "%5B") @@ ("]" :> "%5D")

RECURSIVE encodeURIComponent(_)
encodeURIComponent(str) ==
    IF str = "" THEN ""
    ELSE LET c == SubSeq(str, 1, 1)
         IN  (IF c \in DOMAIN PercentCode THEN PercentCode[c] ELSE c)
             \o encodeURIComponent(SubSeq(str, 2, Len(str)))

\* The URL a file is fetched from.
Url(file) ==
    LET segments == Split(file.path, "/")
        encodedPath == JoinWith([i \in DOMAIN segments |-> encodeURIComponent(segments[i])], "/")
    IN  baseUrl(file) \o encodedPath

\* The blob a successful fetch of the URL yields.
Blob(url) == [from |-> url]

\* The ways a fetch ends: a response that is ok, a response that is not
\* (the status is thrown as an error), a fetch that rejects.
FetchOutcomes == {"ok", "HTTP 404", "Failed to fetch"}

\* results.filter(r => !r.success)
Failures(res) == SelectSeq(res, LAMBDA r : ~r.success)

\* The end of a download in which one failed fetch rejects the whole
\* Promise.all: no archive, the error is alerted.
AfterFetchesAllOrNothing(res, zipFolder) ==
    LET failures == Failures(res)
    IN  IF failures = <<>>
        THEN [archive |-> [download |-> "A4T-STLs.zip", folder |-> "A4T-STLs",
                           files |-> zipFolder],
              alerts |-> <<>>]
        ELSE [archive |-> NoArchive,
              alerts |-> <<"Download failed: " \o failures[1].error>>]

\* downloadParts once every fetch has settled: the zip is generated from
\* the folder and offered, then the failures, if any, are alerted.
AfterFetches(res, zipFolder) ==
    LET failures == Failures(res)
    IN  [archive |-> [download |-> "A4T-STLs.zip", folder |-> "A4T-STLs",
                      files |-> zipFolder],
         alerts |-> IF failures = <<>> THEN <<>>
                    ELSE <<"Download complete!\n\n" \o ToString(Len(failures))
                           \o " file(s) could not be fetched:\n"
                           \o JoinWith([i \in DOMAIN failures |-> failures[i].file], "\n")>>]

\* The configurations the download is followed for.
DownloadConfigs ==
    {[defaultConfig EXCEPT !.extruder = Str("sherpa-mini"), !.hexCowl = Bool(hx)] :
        hx \in BOOLEAN}

InitDownload ==
    /\ pc = "input"
    /\ config \in DownloadConfigs
    /\ compatibility = manifestCompatibility
    /\ script = "app.js"
    /\ partData = NoVariant
    /\ matches = FALSE
    /\ ResolverIdle
    /\ ViewerIdle
    /\ OthersIdle

\* The click on the download button: downloadParts builds the file list,
\* creates the zip folder and starts the fetch of every file.
DownloadClick ==
    /\ pc = "input"
    /\ pc' = "fetching"
    /\ matchingParts' = getMatchingParts(config)
    /\ stlOnlyParts' = getMatchingStlOnlyParts(config)
    /\ allFiles' = downloadFileList(config)
    /\ results' = [i \in DOMAIN allFiles' |-> [url |-> Url(allFiles'[i]), settled |-> FALSE]]
    /\ folder' = <<>>
    /\ UNCHANGED <<config, compatibility, script, partData, matches, warnings,
                   activeModels, modelGroup, loadedModels, runs, archive, alerts>>
    /\ UNCHANGED pageVars

\* The fetch of file i settles: a fetched blob is stored in the folder
\* under the file name, a failure is caught and returned as a result.
FetchSettled(i, outcome) ==
    /\ pc = "fetching"
    /\ i \in DOMAIN results
    /\ ~results[i].settled
    /\ LET path == allFiles[i].path
           fileName == LastSegment(path)
       IN  IF outcome = "ok"
           THEN /\ folder' = (fileName :> Blob(results[i].url)) @@ folder
                /\ results' = [results EXCEPT ![i] =
                                  [url |-> @.url, settled |-> TRUE,
                                   success |-> TRUE, file |-> path]]
           ELSE /\ folder' = folder
                /\ results' = [results EXCEPT ![i] =
                                  [url |-> @.url, settled |-> TRUE,
                                   success |-> FALSE, file |-> path,
                                   error |-> outcome]]
    /\ UNCHANGED <<config, compatibility, script, partData, matches, warnings,
                   matchingParts, stlOnlyParts, activeModels, modelGroup,
                   loadedModels, runs, allFiles, archive, alerts, pc>>
    /\ UNCHANGED pageVars

\* Promise.all has resolved: the archive is generated and offered, the
\* failures are reported.
OfferArchive ==
    /\ pc = "fetching"
    /\ \A i \in DOMAIN results : results[i].settled
    /\ pc' = "done"
    /\ archive' = AfterFetches(results, folder).archive
    /\ alerts' = alerts \o AfterFetches(results, folder).alerts
    /\ UNCHANGED <<config, compatibility, script, partData, matches, warnings,
                   matchingParts, stlOnlyParts, activeModels, modelGroup,
                   loadedModels, runs, allFiles, results, folder>>
    /\ UNCHANGED pageVars

NextDownload ==
    \/ DownloadClick
    \/ \E i \in DOMAIN results, outcome \in FetchOutcomes : FetchSettled(i, outcome)
    \/ OfferArchive

SpecDownload == InitDownload /\ [][NextDownload]_vars
-----------------------------------------------------------------------------
(* SpecPage: the page of the hash-state variant: it is opened with any of  *)
(* a few hashes and session entries, then options and colours are         *)
(* changed, share URLs are made and pasted, and the state is reset.  The   *)
(* loader of the models does not answer in this specification.             *)

\* The most calls of the two loaders, and of generateShareUrl.
MaxCalls == 2
MaxShares == 1

\* The documents of the snapshots the page is given from outside.
SnapshotDocs ==
    {Obj(<<>>),
     Obj([config |-> Obj([hotend |-> Str("rapido")])]),
     Obj([config |-> Obj([hotend |-> Str("rapido"), hexCowl |-> Bool(TRUE),
                          theme |-> Str("dark")]),
          mainColor |-> Num("255")]),
     Obj([config |-> Obj([hotend |-> Null, hexCowl |-> Str("yes")]),
          accentColor |-> Null]),
     Obj([config |-> Obj([hotend |-> Str("\\u4E2D")])]),
     Obj([mainColor |-> Num("1e400")]),
     Obj([config |-> Obj([hotend |-> Str("rapido"), hasOwnProperty |-> Str("x")])]),
     Obj([config |-> Str("rapido")]),
     Bool(TRUE),
     Null}

\* The hashes of the URLs the page is opened with or sent to.
Hashes ==
    {Base64(JsonText(doc, FALSE)) : doc \in SnapshotDocs}
    \cup {Base64(NotJson), NotBase64}

\* The session entries the page can find when it is opened.
Sessions ==
    {Null, NotJson,
     JsonText(Obj([config |-> Obj([extruder |-> Str("sherpa-mini"), theme |-> Str("dark")]),
                   accentColor |-> Num("255")]), FALSE),
     JsonText(Obj([config |-> Obj([hasOwnProperty |-> Str("x")])]), FALSE)}

\* parseInt(str, 16) for a string of hexadecimal digits.
RECURSIVE parseInt16(_)
parseInt16(str) ==
    IF str = "" THEN 0
    ELSE parseInt16(SubSeq(str, 1, Len(str) - 1)) * 16
         + (IndexOf("0123456789abcdef", SubSeq(str, Len(str), Len(str))) - 1)

InitPage ==
    /\ pc = "input"
    /\ config = defaultConfig
    /\ compatibility = manifestCompatibility
    /\ script = "hash-state"
    /\ partData = NoVariant
    /\ matches = FALSE
    /\ ResolverIdle
    /\ ViewerIdle
    /\ DownloadIdle
    /\ mainColor = defaultMainColor
    /\ accentColor = defaultAccentColor
    /\ hash \in Hashes \cup {NoHash}
    /\ session \in Sessions
    /\ calls = <<>>
    /\ shares = <<>>

\* The hashchange listener after the URL was given the hash h: when
\* loadStateFromHash returns true the hash is cleared, the viewer updated
\* and the state saved; otherwise (false, or an exception) nothing else is
\* done.
HashChange(h) ==
    LET st0 == PageState(config, mainColor, accentColor)
        fromHash == loadStateFromHash(st0, h)
        loaded == fromHash.result.ok /\ fromHash.result.value
    IN  /\ pc = "done"
        /\ script = "hash-state"
        /\ MicrotasksDrained
        /\ h # hash
        /\ Len(calls) < MaxCalls
        /\ loaded => Len(runs) < MaxRuns
        /\ calls' = Append(calls, Call("loadStateFromHash", h, st0, fromHash.state,
                                       fromHash.result))
        /\ alerts' = alerts \o fromHash.alerts
        /\ IF loaded
           THEN /\ config' = fromHash.state.config
                /\ mainColor' = fromHash.state.mainColor
                /\ accentColor' = fromHash.state.accentColor
                /\ hash' = NoHash
                /\ Becomes(Begin(World, fromHash.state.config))
                /\ session' = saveStateToSession(fromHash.state)
           ELSE /\ hash' = h
                /\ UNCHANGED <<config, mainColor, accentColor, session, warnings,
                               matchingParts, stlOnlyParts, activeModels, modelGroup,
                               loadedModels, runs>>
        /\ UNCHANGED <<compatibility, script, partData, matches, pc, allFiles, results,
                       folder, archive, shares>>

\* The click on the reset button, confirmed: resetToDefaults.
Reset ==
    /\ pc = "done"
    /\ script = "hash-state"
    /\ MicrotasksDrained
    /\ Len(runs) < MaxRuns
    /\ config' = defaultConfig
    /\ mainColor' = defaultMainColor
    /\ accentColor' = defaultAccentColor
    /\ session' = Null
    /\ Becomes(Begin(World, defaultConfig))
    /\ UNCHANGED <<compatibility, script, partData, matches, pc, downloadVars, hash,
                   calls, shares>>

\* The input listener of a colour picker.
ColorInput(picker, value) ==
    LET colorValue == Num(ToString(parseInt16(replace(value, "#", ""))))
        main == IF picker = "main-color" THEN colorValue ELSE mainColor
        accent == IF picker = "accent-color" THEN colorValue ELSE accentColor
    IN  /\ pc = "done"
        /\ script = "hash-state"
        /\ MicrotasksDrained
        /\ mainColor' = main
        /\ accentColor' = accent
        /\ session' = saveStateToSession(PageState(config, main, accent))
        /\ UNCHANGED <<config, compatibility, script, partData, matches, warnings,
                       matchingParts, stlOnlyParts, activeModels, modelGroup,
                       loadedModels, runs, pc, downloadVars, hash, calls, shares>>

\* The click on the copy-URL button: generateShareUrl encodes the state;
\* an exception of btoa leaves the click without URL.
CopyUrl ==
    LET st == PageState(config, mainColor, accentColor)
    IN  /\ pc = "done"
        /\ script = "hash-state"
        /\ MicrotasksDrained
        /\ Len(shares) < MaxShares
        /\ shares' = Append(shares, [state |-> st,
                                     result |-> encodeStateToHash(getShareableState(st))])
        /\ UNCHANGED <<config, compatibility, script, partData, matches, warnings,
                       matchingParts, stlOnlyParts, activeModels, modelGroup,
                       loadedModels, runs, pc, downloadVars, mainColor, accentColor,
                       hash, session, calls>>

NextPage ==
    \/ DOMContentLoaded
    \/ \E input \in ViewerRadioInputs : RadioChange(input)
    \/ \E input \in ViewerCheckboxInputs : CheckboxChange(input)
    \/ \E h \in Hashes \cup {NoHash} : HashChange(h)
    \/ \E s \in DOMAIN shares : shares[s].result.ok /\ HashChange(shares[s].result.value)
    \/ Reset
    \/ \E picker \in {"main-color", "accent-color"}, value \in {"#0000ff"} :
          ColorInput(picker, value)
    \/ CopyUrl

SpecPage == InitPage /\ [][NextPage]_vars
-----------------------------------------------------------------------------
(* SpecOptions: the option inputs of the page and the disabling rules of   *)
(* updateDisabledOptions.  The page has loaded with the default             *)
(* configuration; every change picks an input that is enabled in the        *)
(* configuration of that moment.  The scene is not followed here: of        *)
(* updateViewer the specification keeps the lists it resolves.              *)

\* The radio inputs of the axes the disabling rules read, and the checkbox
\* of the filament cutter.
OptionRadioInputs ==
    {[name |-> <<"carriage">>, value |-> v] : v \in Range(configOptions.carriage)}
    \cup {[name |-> <<"hotend">>, value |-> v] : v \in Range(configOptions.hotend)}
    \cup {[name |-> <<"extruder">>, value |-> v] : v \in Range(configOptions.extruder)}
    \cup {[name |-> <<"toolhead", "board">>, value |-> v] : v \in Range(toolheadBoardOptions)}

OptionCheckboxInputs == {[name |-> <<"filament", "cutter">>, value |-> "crossbow"]}

\* What a change listener leaves behind for the configuration cfg it
\* wrote: updateViewer resolves the parts and the warnings, the hash-state
\* variant saves the state.
Selected(cfg) ==
    /\ config' = cfg
    /\ matchingParts' = getMatchingParts(cfg)
    /\ stlOnlyParts' = getMatchingStlOnlyParts(cfg)
    /\ warnings' = checkCompatibility(cfg)
    /\ Saved(cfg)
    /\ UNCHANGED <<compatibility, script, partData, matches, activeModels, modelGroup,
                   loadedModels, runs, pc, downloadVars>>

InitOptions ==
    /\ pc = "done"
    /\ config = defaultConfig
    /\ compatibility = manifestCompatibility
    /\ script \in {"app.js", "hash-state"}
    /\ partData = NoVariant
    /\ matches = FALSE
    /\ matchingParts = getMatchingParts(defaultConfig)
    /\ stlOnlyParts = getMatchingStlOnlyParts(defaultConfig)
    /\ warnings = checkCompatibility(defaultConfig)
    /\ ViewerIdle
    /\ DownloadIdle
    /\ mainColor = defaultMainColor
    /\ accentColor = defaultAccentColor
    /\ hash = NoHash
    /\ session = IF script = "hash-state"
                 THEN saveStateToSession(PageState(defaultConfig, defaultMainColor,
                                                   defaultAccentColor))
                 ELSE Null
    /\ calls = <<>>
    /\ shares = <<>>

\* The change listener of a radio input that is enabled and not checked.
RadioSelect(input) ==
    LET configKey == ToCamelCase(input.name)
    IN  /\ Get(config, configKey) # Str(input.value)
        /\ ~shouldDisable(config, input.name, input.value)
        /\ Selected((configKey :> Str(input.value)) @@ config)

\* The change listener of a checkbox that is enabled: the value when it
\* becomes checked, 'none' when it is cleared.
CheckboxToggle(input) ==
    LET configKey == ToCamelCase(input.name)
        checked == Get(config, configKey) # Str(input.value)
    IN  /\ ~shouldDisable(config, input.name, input.value)
        /\ Selected((configKey :> (IF checked THEN Str(input.value) ELSE Str("none")))
                    @@ config)

NextOptions ==
    \/ \E input \in OptionRadioInputs : RadioSelect(input)
    \/ \E input \in OptionCheckboxInputs : CheckboxToggle(input)

SpecOptions == InitOptions /\ [][NextOptions]_vars
-----------------------------------------------------------------------------
(* updatePartsList: the files the parts list of the page shows.            *)

\* The entries of the parts list in the order the list shows them: the
\* parts that pass the filter, grouped by categoryLabel in the order the
\* labels first appear (the insertion order of byCategory).
listedParts(matching, stlOnly) ==
    LET allParts == SelectSeq(matching \o stlOnly,
                              LAMBDA p : printable(p) /\ p.category # "toolheadBoardMounts")
        first == {i \in DOMAIN allParts :
                     \A j \in 1..(i - 1) : allParts[j].categoryLabel # allParts[i].categoryLabel}
        group(i) == SelectSeq(allParts, LAMBDA p : p.categoryLabel = allParts[i].categoryLabel)
    IN  ConcatAll([i \in DOMAIN allParts |-> IF i \in first THEN group(i) ELSE <<>>])

\* updatePartsList of docs/js/app.js: the file name each entry shows.
updatePartsList(matching, stlOnly, cfg) ==
    LET listed == listedParts(matching, stlOnly)
        nameOf(part) ==
            LET fileName ==
                    IF HasPath(part, "stlFile") THEN LastSegment(Join(part.stlFile))
                    ELSE LET baseName == replace(LastSegment(Join(part.file)), ".glb", "")
                         IN  IF endsWith(baseName, ".stl") THEN baseName
                             ELSE baseName \o ".stl"
            IN  IF Truthy(Get(cfg, "hexCowl")) /\ part.category = "cowlings"
                THEN "Hex " \o replace(fileName, ".stl", "") \o ".3mf"
                ELSE fileName
    IN  [i \in DOMAIN listed |-> [fileName |-> nameOf(listed[i])]]

\* updatePartsList of the hash-state variant: the file name each entry
\* shows and the file its link points to.
updatePartsListHashState(matching, stlOnly, cfg) ==
    LET listed == listedParts(matching, stlOnly)
        entryOf(part) ==
            LET stl == IF HasPath(part, "stlFile") THEN Join(part.stlFile)
                       ELSE IF HasPath(part, "stlPath") THEN Join(part.stlPath)
                       ELSE LET baseName == replace(Join(part.file), ".glb", "")
                            IN  IF endsWith(baseName, ".stl") THEN baseName
                                ELSE baseName \o ".stl"
                is3mf == Truthy(Get(cfg, "hexCowl")) /\ part.category = "cowlings"
                shown == IF is3mf
                            THEN "Cowlings [Hexagon multi-colour]/" \o "Hex "
                                 \o replace(LastSegment(stl), ".stl", "") \o ".3mf"
                            ELSE stl
            IN  [fileName |-> LastSegment(shown), filePath |-> shown, is3mf |-> is3mf]
    IN  [i \in DOMAIN listed |-> entryOf(listed[i])]

-----------------------------------------------------------------------------
(* The coverage test (test-stl-coverage.js): its own matcher, resolvers and *)
(* expected file list.                                                      *)

\* partMatchesConfig of the coverage test: the always flag first, and
\* requiresAny passes as soon as one listed axis holds a listed value.
\* Array.isArray(values) holds for every list of the manifest.
testPartMatchesConfig(p, cfg) ==
    IF Truthy(Get(p, "always")) THEN TRUE
    ELSE IF RequiresFails(p, cfg) THEN FALSE
    ELSE IF /\ HasObject(p, "requiresAny")
            /\ ~\E key \in DOMAIN p.requiresAny : Includes(p.requiresAny[key], Get(cfg, key))
         THEN FALSE
    ELSE IF ExcludeIfHits(p, cfg) THEN FALSE
    ELSE TRUE

\* The inner loop of the test's resolvers: { id, category, ...partData }.
testMatchingOf(cat, cfg) ==
    LET vs == SelectSeq(cat.variants, LAMBDA p : testPartMatchesConfig(p, cfg))
    IN  [i \in DOMAIN vs |-> vs[i] @@ [category |-> cat.id]]

\* getMatchingParts of the coverage test: the noExtruderAdapter flags are
\* read for their truthiness.
testGetMatchingParts(cfg) ==
    LET flag(value) ==
            LET key == ToPropertyKey(value)
            IN  key \in DOMAIN compatibility
                /\ Truthy(Get(compatibility[key], "noExtruderAdapter"))
        skipExtruderAdapter == flag(Get(cfg, "extruder")) \/ flag(Get(cfg, "hotend"))
    IN  ConcatAll([i \in DOMAIN parts |->
            IF skipExtruderAdapter /\ parts[i].id = "extruderAdapters"
            THEN <<>>
            ELSE testMatchingOf(parts[i], cfg)])

\* getMatchingStlOnlyParts of the coverage test.
testGetMatchingStlOnlyParts(cfg) ==
    ConcatAll([i \in DOMAIN stlOnlyPartsManifest |->
                  testMatchingOf(stlOnlyPartsManifest[i], cfg)])

\* getExpectedFiles(config)
getExpectedFiles(cfg) ==
    LET files == renderedFiles(testGetMatchingParts(cfg))
                 \o stlOnlyFiles(testGetMatchingStlOnlyParts(cfg))
    IN  IF Truthy(Get(cfg, "hexCowl"))
        THEN [i \in DOMAIN files |->
                 IF isCowlingFile(files[i]) THEN hexFile(files[i]) ELSE files[i]]
        ELSE files

-----------------------------------------------------------------------------
(* Properties of the matching predicate (SpecMatch).                        *)

\* The configuration's value for key is one of the listed values, exactly.
Listed(values, cfg, key) == \E i \in DOMAIN values : values[i] = Get(cfg, key)

AbsentOrEmpty(p, field) == field \notin DOMAIN p \/ DOMAIN p[field] = {}

VariantOf(cat, id) == CHOOSE p \in Range(cat.variants) : p.id = id

\* C1: partMatchesConfig returns true for every variant with always: true,
\* for every configuration, whatever its requires, requiresAny and excludeIf
\* say.
C1_AlwaysOverrides ==
    (pc = "done" /\ Get(partData, "always") = Bool(TRUE))
        => matches = TRUE

-----------------------------------------------------------------------------
(* Properties of checkCompatibility on arbitrary rule maps (SpecCompat).    *)

\* C7: checkCompatibility consults the selected hotend's rule as well as the
\* selected extruder's: whenever the hotend's rule has an incompatibleWith
\* entry whose list holds the configuration's value for that axis, the
\* rule's warningMessage is in the returned list.
C7_HotendRuleConsulted ==
    LET key == Get(config, "hotend").v
    IN  (/\ pc = "done"
         /\ key \in DOMAIN compatibility
         /\ "incompatibleWith" \in DOMAIN compatibility[key]
         /\ \E axis \in DOMAIN compatibility[key].incompatibleWith :
               Listed(compatibility[key].incompatibleWith[axis], config, axis))
            => \E i \in DOMAIN warnings : warnings[i] = compatibility[key].warningMessage

-----------------------------------------------------------------------------
(* Properties of the resolution over the option domains (SpecResolve).      *)

UhfClass == {"dragon-uhf", "dragon-ace-mze", "dragon-ace-volcano-mze", "rapido-uhf"}

\* Variants without the always flag whose predicates are absent or empty.
VacuousVariants ==
    {a @@ r @@ ra @@ e :
        a \in Optional("always", {Bool(FALSE)}),
        r \in Optional("requires", {<<>>}),
        ra \in Optional("requiresAny", {<<>>}),
        e \in Optional("excludeIf", {<<>>})}

\* C4: a variant without the always flag whose requires, requiresAny and
\* excludeIf are each absent or empty matches every configuration; the
\* variants of backflowInhibitors and ledHolderFilter are of that kind, so
\* backflow-inhibitor, backflow-install-tool, led-carrier, led-diffuser and
\* led-filter are resolved by getMatchingStlOnlyParts for every
\* configuration.
C4_VacuousMatch ==
    /\ \A p \in VacuousVariants : partMatchesConfig(p, config)
    /\ \A p \in Range(backflowInhibitors.variants) \cup Range(ledHolderFilter.variants) :
          /\ "always" \notin DOMAIN p
          /\ \A field \in {"requires", "requiresAny", "excludeIf"} : AbsentOrEmpty(p, field)
    /\ pc = "done" =>
          {"backflow-inhibitor", "backflow-install-tool", "led-carrier",
           "led-diffuser", "led-filter"} \subseteq Ids(stlOnlyParts)

\* The five variants were resolved for a configuration other than the
\* default one in every axis.
C4_Witness ==
    /\ pc = "done"
    /\ \A key \in DOMAIN defaultConfig : config[key] # defaultConfig[key]
    /\ Ids(OfCategory(stlOnlyParts, "backflowInhibitors"))
          = {"backflow-inhibitor", "backflow-install-tool"}
    /\ Ids(OfCategory(stlOnlyParts, "ledHolderFilter"))
          = {"led-carrier", "led-diffuser", "led-filter"}

\* C5: when the selected extruder or the selected hotend has a rule with
\* noExtruderAdapter true (sherpa-mini and the four UHF-class hotends),
\* getMatchingParts returns no part of category extruderAdapters, the
\* crossbow holders and crossbow-assembly included; for every other
\* configuration the category is evaluated variant by variant.
C5_AdapterSkip ==
    /\ {key \in DOMAIN manifestCompatibility :
           Get(manifestCompatibility[key], "noExtruderAdapter") = Bool(TRUE)}
          = {"sherpa-mini"} \cup UhfClass
    /\ pc = "done" =>
          IF config.extruder.v = "sherpa-mini" \/ config.hotend.v \in UhfClass
          THEN OfCategory(matchingParts, "extruderAdapters") = <<>>
          ELSE Ids(OfCategory(matchingParts, "extruderAdapters"))
                  = {p.id : p \in {q \in Range(extruderAdapters.variants) :
                                      partMatchesConfig(q, config)}}

\* A UHF-class hotend with an extruder that carries no flag and with the
\* crossbow cutter: the holder and the assembly would match, none is there.
C5_Witness ==
    /\ pc = "done"
    /\ config.hotend.v = "dragon-uhf"
    /\ config.extruder.v = "wwbmg"
    /\ config.filamentCutter.v = "crossbow"
    /\ partMatchesConfig(VariantOf(extruderAdapters, "crossbow-wwbmg"), config)
    /\ partMatchesConfig(VariantOf(extruderAdapters, "crossbow-assembly"), config)
    /\ OfCategory(matchingParts, "extruderAdapters") = <<>>

\* C6: for every configuration over the option domains getMatchingParts
\* resolves exactly one hotendDucts variant and at most one cowlings
\* variant: exactly one cowling unless the hotend is UHF-class and the
\* extruder is lgx-lite, vz-hextrudort or sherpa-mini, and then none.  For
\* the default configuration the cowling, duct and adapter are
\* cowling-dragon-rapido-xol, duct-dragon and adapter-wwbmg-xol.
C6_OneDuctOneCowling ==
    pc = "done" =>
        /\ Len(OfCategory(matchingParts, "hotendDucts")) = 1
        /\ Len(OfCategory(matchingParts, "cowlings")) =
              IF /\ config.hotend.v \in UhfClass
                 /\ config.extruder.v \in {"lgx-lite", "vz-hextrudort", "sherpa-mini"}
              THEN 0 ELSE 1
        /\ (/\ config.carriage.v = "xol-carriage"
            /\ config.hotend.v = "dragon"
            /\ config.extruder.v = "wwbmg"
            /\ config.filamentCutter.v = "none")
              => /\ Ids(OfCategory(matchingParts, "cowlings")) = {"cowling-dragon-rapido-xol"}
                 /\ Ids(OfCategory(matchingParts, "hotendDucts")) = {"duct-dragon"}
                 /\ Ids(OfCategory(matchingParts, "extruderAdapters")) = {"adapter-wwbmg-xol"}

\* A UHF-class hotend with lgx-lite: a duct and no cowling.
C6_Witness ==
    /\ pc = "done"
    /\ config.hotend.v = "rapido-uhf"
    /\ config.extruder.v = "lgx-lite"
    /\ Len(OfCategory(matchingParts, "hotendDucts")) = 1
    /\ OfCategory(matchingParts, "cowlings") = <<>>

\* C8: checkCompatibility appends the extruder rule's warningMessage once
\* per incompatibleWith axis whose list holds the configuration's value,
\* duplicates kept: with sherpa-mini the list holds as many copies of the
\* Sherpa-Mini message as hold of {hotend is UHF-class, filamentCutter is
\* crossbow}; with any other extruder it is empty.
C8_OneWarningPerAxis ==
    pc = "done" =>
        LET n == (IF config.hotend.v \in UhfClass THEN 1 ELSE 0)
                 + (IF config.filamentCutter.v = "crossbow" THEN 1 ELSE 0)
        IN  IF config.extruder.v = "sherpa-mini"
            THEN warnings = [i \in 1..n |-> Str(sherpaMiniWarning)]
            ELSE warnings = <<>>

\* sherpa-mini with a UHF-class hotend and the crossbow cutter: two copies.
C8_Witness ==
    /\ pc = "done"
    /\ config.extruder.v = "sherpa-mini"
    /\ config.hotend.v \in UhfClass
    /\ config.filamentCutter.v = "crossbow"
    /\ warnings = <<Str(sherpaMiniWarning), Str(sherpaMiniWarning)>>

-----------------------------------------------------------------------------
(* Properties of the updateViewer runs (SpecViewer).                        *)

\* C9: overlapping updateViewer runs are last-write-wins: once every run
\* that was started has finished, all loads having succeeded, the active
\* model ids are the ids getMatchingParts returns for the latest
\* configuration.
C9_LastWriteWins ==
    (/\ pc = "done"
     /\ \A r \in DOMAIN runs : runs[r].pc = "done" /\ ~runs[r].failed)
        => DOMAIN activeModels = Ids(getMatchingParts(config))

\* Run r finished, no other run was unfinished while it ran, and none of
\* its loads failed.
AloneAndLoaded(r) ==
    /\ runs[r].pc = "done"
    /\ ~runs[r].interleaved
    /\ ~runs[r].failed

\* The part was active when the run started and its hex state is the one
\* the run's configuration asks for.
HexStateKept(run, id) ==
    \/ run.startActive[id].userData.category # "cowlings"
    \/ Bool(run.startActive[id].userData.isHexCowl) = Get(run.startConfig, "hexCowl")

\* C10: an updateViewer run that is not interleaved with another and whose
\* loads all succeed ends with the active model ids equal to the ids of
\* getMatchingParts for its configuration, and a part that was active
\* before, still matches and keeps its hex state is neither removed nor
\* loaded or added again: its model is the one it had.
C10_IncrementalUpdate ==
    \A r \in DOMAIN runs :
        AloneAndLoaded(r) =>
            LET run == runs[r]
                want == Ids(getMatchingParts(run.startConfig))
            IN  /\ DOMAIN run.endActive = want
                /\ \A id \in DOMAIN run.startActive \cap want :
                      HexStateKept(run, id) =>
                          /\ id \notin run.removed
                          /\ id \notin Ids(run.toAdd)
                          /\ run.endActive[id].model = run.startActive[id].model

\* A second run, alone, that removed a part, loaded a part and kept a part.
C10_Witness ==
    \E r \in DOMAIN runs :
        /\ r > 1
        /\ AloneAndLoaded(r)
        /\ runs[r].removed # {}
        /\ runs[r].toAdd # <<>>
        /\ \E id \in DOMAIN runs[r].startActive :
              /\ id \in DOMAIN runs[r].endActive
              /\ id \notin Ids(runs[r].toAdd)
              /\ runs[r].endActive[id].model = runs[r].startActive[id].model


\* The active cowlings of a run's start whose stored hex state is not the
\* one the run's configuration asks for and that still match.
FlippedCowlings(run) ==
    {id \in DOMAIN run.startActive \cap Ids(run.matchingParts) :
        /\ run.startActive[id].userData.category = "cowlings"
        /\ Bool(run.startActive[id].userData.isHexCowl) # Get(run.startConfig, "hexCowl")}

\* The ids of a list of parts, in the order of the list.
IdSeq(list) == [i \in DOMAIN list |-> list[i].id]

\* How many times the id occurs in a sequence of ids.
Occurrences(ids, id) == Cardinality({i \in DOMAIN ids : ids[i] = id})

\* The run removed the cowling and then added, once, a model it loaded
\* itself, stored with the hex state of the run's configuration.
ReloadedOnce(r, id) ==
    LET run == runs[r]
    IN  /\ id \in run.removed
        /\ Occurrences(run.added, id) = 1
        /\ id \in DOMAIN run.endActive
        /\ run.endActive[id].model = Model(r, id)
        /\ Bool(run.endActive[id].userData.isHexCowl) = Get(run.startConfig, "hexCowl")

\* After the run every active cowling's stored hex state is the one of the
\* configuration.
CowlingsFollowConfig(run) ==
    \A id \in DOMAIN run.endActive :
        run.endActive[id].userData.category = "cowlings"
            => Bool(run.endActive[id].userData.isHexCowl) = Get(run.startConfig, "hexCowl")

LoadedIds(run) == SelectSeq(IdSeq(run.toAdd), LAMBDA id : id \notin run.failedIds)

\* Nothing of run r is in the scene or recorded as active under the id.
NothingAdded(r, id) ==
    /\ id \notin Range(runs[r].added)
    /\ Model(r, id) \notin modelGroup
    /\ id \in DOMAIN activeModels => activeModels[id].model # Model(r, id)

\* C12: in updateViewer a model whose load fails is skipped: it is neither
\* recorded in activeModels nor added to the scene, and every other part of
\* the run's toAdd is still loaded, added to the scene and recorded as
\* active (the hash-state variant passes over a part another run made
\* active in the meantime, so its runs are taken when they ran alone).
C12_FailedLoadSkipped ==
    \A r \in DOMAIN runs :
        /\ \A id \in runs[r].failedIds : NothingAdded(r, id)
        /\ runs[r].pc = "done" =>
              /\ (script = "app.js" \/ ~runs[r].interleaved)
                    => runs[r].added = LoadedIds(runs[r])
              /\ ~runs[r].interleaved =>
                    \A id \in Range(runs[r].added) :
                        /\ id \in DOMAIN runs[r].endActive
                        /\ runs[r].endActive[id].model = Model(r, id)
                        /\ r = Len(runs) => Model(r, id) \in modelGroup

\* A finished run in which one load failed, a part before it and a part
\* after it in toAdd were added.
C12_Witness ==
    \E r \in DOMAIN runs :
        /\ runs[r].pc = "done"
        /\ ~runs[r].interleaved
        /\ \E i, j, k \in DOMAIN runs[r].toAdd :
              /\ i < j /\ j < k
              /\ runs[r].toAdd[j].id \in runs[r].failedIds
              /\ runs[r].toAdd[i].id \in Range(runs[r].added)
              /\ runs[r].toAdd[k].id \in Range(runs[r].added)
              /\ runs[r].toAdd[k].id \in DOMAIN activeModels

-----------------------------------------------------------------------------
(* Properties of the download file list (SpecFiles).                        *)

\* The renderable parts downloadParts leaves out of the list.
LeftOut(p) ==
    \/ p.category \in {"carriages", "wwbmg", "hotendSpacers"}
    \/ Get(p, "visualOnly") = Bool(TRUE)

\* The STL path of a renderable part, from the manifest: the stlPath when
\* there is one, else the model file with '.stl' appended.
StlPathOf(p) ==
    IF "stlPath" \in DOMAIN p THEN Join(p.stlPath) ELSE Join(p.file) \o ".stl"

\* The path of the hex 3MF of a renderable part, from the manifest.
HexPathOf(p) ==
    "Cowlings [Hexagon multi-colour]/Hex " \o p.file[Len(p.file)] \o ".3mf"

\* The resolved renderable parts that are not left out, in order.
Listed3D == SelectSeq(matchingParts, LAMBDA p : ~LeftOut(p))

\* C14: for every configuration the download file list has no descriptor
\* derived from a visualOnly part (crossbow-assembly is the only one) or
\* from a renderable part of category carriages, wwbmg or hotendSpacers,
\* and it has one descriptor for every other resolved renderable part and
\* for every resolved download-only part.
C14_ListedParts ==
    pc = "done" =>
        /\ \A i \in DOMAIN matchingParts :
              /\ Get(matchingParts[i], "visualOnly") = Bool(TRUE)
                    => matchingParts[i].id = "crossbow-assembly"
              /\ LeftOut(matchingParts[i]) =>
                    \A k \in DOMAIN allFiles :
                        allFiles[k].path \notin
                            {StlPathOf(matchingParts[i]), HexPathOf(matchingParts[i])}
        /\ Len(allFiles) = Len(Listed3D) + Len(stlOnlyParts)
        /\ \A i \in DOMAIN Listed3D :
              allFiles[i].path \in {StlPathOf(Listed3D[i]), HexPathOf(Listed3D[i])}
        /\ \A j \in DOMAIN stlOnlyParts :
              allFiles[Len(Listed3D) + j].path = Join(stlOnlyParts[j].stlFile)

\* A list built for a configuration that resolves the crossbow assembly, a
\* hotend spacer and download-only parts.
C14_Witness ==
    /\ pc = "done"
    /\ "crossbow-assembly" \in Ids(matchingParts)
    /\ OfCategory(matchingParts, "hotendSpacers") # <<>>
    /\ OfCategory(matchingParts, "wwbmg") # <<>>
    /\ stlOnlyParts # <<>>
    /\ Listed3D # <<>>
    /\ Len(allFiles) = Len(Listed3D) + Len(stlOnlyParts)

\* The variant ids of a manifest group, category by category, variant by
\* variant.
ManifestIds(group) == IdSeq(ConcatAll([i \in DOMAIN group |-> group[i].variants]))

\* The list is in the order of the manifest group.
InManifestOrder(list, group) ==
    LET ids == ManifestIds(group)
        at(id) == CHOOSE k \in DOMAIN ids : ids[k] = id
    IN  /\ \A k, l \in DOMAIN ids : ids[k] = ids[l] => k = l
        /\ \A i, j \in DOMAIN list : i < j => at(list[i].id) < at(list[j].id)

\* The reference list of C15: the STL paths of the listed renderable parts,
\* then the stlFile of the download-only parts.
ReferencePaths ==
    [i \in DOMAIN Listed3D |-> StlPathOf(Listed3D[i])]
    \o [j \in DOMAIN stlOnlyParts |-> Join(stlOnlyParts[j].stlFile)]

\* C15: with hexCowl false the download file list is, for every
\* configuration, the reference list: the renderable parts that are not
\* left out, in manifest order (category, then variant), then the
\* download-only parts in manifest order, one descriptor per part; the path
\* is the stlPath verbatim or the file with '.stl' appended, or the stlFile;
\* every descriptor is tagged STL.
C15_ReferenceList ==
    (pc = "done" /\ config.hexCowl = Bool(FALSE)) =>
        /\ [i \in DOMAIN allFiles |-> allFiles[i].path] = ReferencePaths
        /\ \A i \in DOMAIN allFiles :
              /\ allFiles[i].isStl = TRUE
              /\ "is3mf" \notin DOMAIN allFiles[i]
              /\ baseUrl(allFiles[i]) = GITHUB_STL_BASE
        /\ InManifestOrder(matchingParts, parts)
        /\ InManifestOrder(stlOnlyParts, stlOnlyPartsManifest)

\* A list built with hexCowl false that holds a stlPath taken verbatim, a
\* path derived from a model file and the stlFile of a download-only part.
C15_Witness ==
    /\ pc = "done"
    /\ config.hexCowl = Bool(FALSE)
    /\ \E i, j \in DOMAIN Listed3D :
          /\ "stlPath" \in DOMAIN Listed3D[i]
          /\ "stlPath" \notin DOMAIN Listed3D[j]
          /\ allFiles[i].path = Join(Listed3D[i].stlPath)
          /\ allFiles[j].path = Join(Listed3D[j].file) \o ".stl"
    /\ stlOnlyParts # <<>>
    /\ allFiles[Len(allFiles)].path = Join(stlOnlyParts[Len(stlOnlyParts)].stlFile)

\* The file name of a part's STL path, without directory and without the
\* '.stl' at its end.
StlNameOf(p) ==
    LET segments == IF "stlPath" \in DOMAIN p THEN p.stlPath
                    ELSE [p.file EXCEPT ![Len(p.file)] = @ \o ".stl"]
        name == segments[Len(segments)]
    IN  IF endsWith(name, ".stl") THEN SubSeq(name, 1, Len(name) - 4) ELSE name

\* C16: with hexCowl true every descriptor of a cowling has the path
\* 'Cowlings [Hexagon multi-colour]/Hex ' + N + '.3mf', N being the file
\* name of the cowling's STL path without directory and without '.stl', is
\* tagged 3MF and not STL and is fetched from the 3MF base URL; every
\* descriptor tagged 3MF is the one of a cowling.
C16_HexCowling ==
    (pc = "done" /\ config.hexCowl = Bool(TRUE)) =>
        /\ \A i \in DOMAIN Listed3D :
              Listed3D[i].category = "cowlings" =>
                  /\ allFiles[i].path =
                        "Cowlings [Hexagon multi-colour]/Hex "
                            \o StlNameOf(Listed3D[i]) \o ".3mf"
                  /\ allFiles[i].isStl = FALSE
                  /\ Flag(allFiles[i], "is3mf")
                  /\ baseUrl(allFiles[i]) = GITHUB_3MF_BASE
        /\ \A k \in DOMAIN allFiles :
              Flag(allFiles[k], "is3mf") =>
                  /\ k \in DOMAIN Listed3D
                  /\ Listed3D[k].category = "cowlings"

\* A list built with hexCowl true that holds the hex 3MF of a cowling and
\* the STL of another part.
C16_Witness ==
    /\ pc = "done"
    /\ config.hexCowl = Bool(TRUE)
    /\ \E i, j \in DOMAIN Listed3D :
          /\ Listed3D[i].category = "cowlings"
          /\ Flag(allFiles[i], "is3mf")
          /\ Listed3D[j].category # "cowlings"
          /\ allFiles[j].isStl

\* The configuration after the hex-cowl checkbox was toggled.
HexCowlToggled(cfg) == [cfg EXCEPT !.hexCowl = Bool(cfg.hexCowl # Bool(TRUE))]

\* The position of the list is the one of a cowling.
CowlingAt(i) == i \in DOMAIN Listed3D /\ Listed3D[i].category = "cowlings"

\* Path and format tag of a descriptor.
PathAndFormat(file) == <<file.path, Flag(file, "isStl"), Flag(file, "is3mf")>>

\* C17: the download file lists of two configurations that differ only in
\* hexCowl have the same length and the same path and format tag at every
\* position that is not the one of a cowling; toggling hexCowl twice gives
\* the original list again.
C17_HexToggle ==
    pc = "done" =>
        LET toggled == downloadFileList(HexCowlToggled(config))
            back == downloadFileList(HexCowlToggled(HexCowlToggled(config)))
        IN  /\ Len(toggled) = Len(allFiles)
            /\ \A i \in DOMAIN allFiles :
                  ~CowlingAt(i) => PathAndFormat(toggled[i]) = PathAndFormat(allFiles[i])
            /\ back = allFiles

\* A list with hexCowl false whose cowling position changes when hexCowl is
\* switched on, next to a position that stays.
C17_Witness ==
    /\ pc = "done"
    /\ config.hexCowl = Bool(FALSE)
    /\ \E i, j \in DOMAIN allFiles :
          /\ CowlingAt(i)
          /\ ~CowlingAt(j)
          /\ downloadFileList(HexCowlToggled(config))[i].path # allFiles[i].path
          /\ downloadFileList(HexCowlToggled(config))[j].path = allFiles[j].path

-----------------------------------------------------------------------------
(* Properties of the download (SpecDownload).                               *)

\* The positions of the list whose fetch succeeded, and those whose fetch
\* failed.
Fetched == {i \in DOMAIN results : results[i].settled /\ results[i].success}
NotFetched == {i \in DOMAIN results : results[i].settled /\ ~results[i].success}

\* The lines of the last alert after its three heading lines.
ReportedPaths ==
    LET lines == Split(alerts[Len(alerts)], "\n")
    IN  SubSeq(lines, 4, Len(lines))

\* The paths whose fetch failed, in the order of the list.
FailedPaths ==
    LET failed == SelectSeq([i \in DOMAIN allFiles |-> i], LAMBDA i : i \in NotFetched)
    IN  [k \in DOMAIN failed |-> allFiles[failed[k]].path]

\* C13: downloadParts starts the fetch of every file of its list, and each
\* fetch can settle whatever the outcome of the others; the archive holds
\* exactly the files whose fetch succeeded, the failure list shown to the
\* user names exactly the paths whose fetch failed, and the archive is
\* generated and offered also when fetches failed.
C13_PartialDownload ==
    /\ pc \in {"fetching", "done"} =>
          /\ Len(results) = Len(allFiles)
          /\ \A i \in DOMAIN allFiles :
                /\ Fetched \cup NotFetched = {} => results[i].url = Url(allFiles[i])
                /\ (pc = "fetching" /\ ~results[i].settled)
                      => \A outcome \in FetchOutcomes : ENABLED FetchSettled(i, outcome)
          /\ DOMAIN folder = {LastSegment(allFiles[i].path) : i \in Fetched}
          /\ Cardinality(DOMAIN folder) = Cardinality(Fetched)
          /\ \A i \in Fetched : folder[LastSegment(allFiles[i].path)] = Blob(results[i].url)
    /\ pc = "done" =>
          /\ Fetched \cup NotFetched = DOMAIN allFiles
          /\ archive # NoArchive
          /\ archive.files = folder
          /\ IF NotFetched = {} THEN alerts = <<>>
             ELSE Len(alerts) = 1 /\ ReportedPaths = FailedPaths

\* A finished download in which a fetch failed, a fetch settled before it
\* succeeded and another succeeded: the archive holds two files or more
\* and the alert names the failed path.
C13_Witness ==
    /\ pc = "done"
    /\ config.hexCowl = Bool(TRUE)
    /\ Cardinality(NotFetched) = 2
    /\ Cardinality(Fetched) >= 2
    /\ archive # NoArchive
    /\ Cardinality(DOMAIN archive.files) = Cardinality(Fetched)
    /\ Len(alerts) = 1
-----------------------------------------------------------------------------
(* Properties of the shareable state (SpecPage).                            *)

\* The snapshot a loader call was given: what decodeHashToState or
\* JSON.parse made of its input.
SnapshotOf(call) ==
    IF call.fn = "loadStateFromHash" THEN decodeHashToState(call.input)
    ELSE parse(call.input).value

\* The keys the config object of a snapshot carries.
CarriedKeys(snapshot) ==
    IF Prop(snapshot, "config").t = "object" THEN DOMAIN Prop(snapshot, "config").v ELSE {}

\* The loader calls that loaded a snapshot.
Loads == {i \in DOMAIN calls : calls[i].result.ok /\ calls[i].result.value}

\* state.config has exactly the eight allowlisted keys.
KeysAreAllowlist == DOMAIN config = Range(validKeys)

\* Every load overwrote the allowlisted keys its snapshot carries with the
\* carried values, kept the others and added no key.
LoadsMergeAllowlisted ==
    \A i \in Loads :
       LET snapshot == SnapshotOf(calls[i])
       IN  /\ DOMAIN calls[i].after.config = Range(validKeys)
           /\ \A k \in Range(validKeys) :
                 calls[i].after.config[k] =
                    IF k \in CarriedKeys(snapshot) THEN Prop(snapshot, "config").v[k]
                    ELSE calls[i].before.config[k]

\* No key of state.config is without a value (undefined or null).
NoKeyUnset == \A k \in DOMAIN config : config[k] \notin {Undefined, Null}

\* C18: after any sequence of option changes, snapshot loads and resets,
\* state.config has exactly the eight allowlisted keys, none of them unset;
\* a load overwrites only the allowlisted keys the snapshot carries, keeps
\* the others and adds no key outside the allowlist.
C18_ConfigKeys ==
    /\ KeysAreAllowlist
    /\ LoadsMergeAllowlisted
    /\ NoKeyUnset

\* The calls of loadStateFromHash on a hash that is not empty.
HashCalls == {i \in DOMAIN calls : calls[i].fn = "loadStateFromHash" /\ calls[i].input # NoHash}

\* The hash is not base64, or the text it encodes is not JSON.
Undecodable(h) == h.encoding # "base64" \/ h.text.syntax # "json"

\* The calls of loadStateFromHash that were given an undecodable hash, and
\* those that were given a hash no snapshot was read from (undecodable, or
\* the JSON of a falsy value).
UndecodableCalls == {i \in HashCalls : Undecodable(calls[i].input)}
SnapshotlessCalls ==
    {i \in HashCalls : Undecodable(calls[i].input)
                       \/ ~Truthy(ValueOf(calls[i].input.text.doc))}

\* C19: when the hash cannot be decoded (invalid base64 or invalid JSON),
\* loadStateFromHash changes no key of state.config nor a colour, returns
\* false and schedules the alert that the shared URL is invalid: the
\* alerts are one per call that read no snapshot.
C19_UndecodableHash ==
    /\ \A i \in UndecodableCalls :
          /\ calls[i].after = calls[i].before
          /\ calls[i].result = Returned(FALSE)
    /\ Len(alerts) = Cardinality(SnapshotlessCalls)
    /\ \A n \in DOMAIN alerts : alerts[n] = invalidUrlAlert

\* An undecodable hash arrived after a snapshot with a config had been
\* loaded: the state it was to leave alone is not the default one.
C19_Witness ==
    /\ pc = "done"
    /\ \E i \in UndecodableCalls :
          /\ calls[i].before.config # defaultConfig
          /\ hash = calls[i].input
    /\ alerts = <<invalidUrlAlert>>
    /\ config # defaultConfig

\* The share URLs that were made, and the calls of loadStateFromHash that
\* were given the hash of share s.
Shared == {s \in DOMAIN shares : shares[s].result.ok}
LoadsOf(s) == {i \in HashCalls : calls[i].input = shares[s].result.value}

\* C20: share round trip: loading the hash generateShareUrl made from a
\* state S into any state gives the configuration of S on all eight keys
\* and the colours of S.
C20_ShareRoundTrip ==
    \A s \in Shared : \A i \in LoadsOf(s) :
       /\ calls[i].result = Returned(TRUE)
       /\ \A k \in Range(validKeys) : calls[i].after.config[k] = shares[s].state.config[k]
       /\ calls[i].after.mainColor = shares[s].state.mainColor
       /\ calls[i].after.accentColor = shares[s].state.accentColor
-----------------------------------------------------------------------------
(* Properties of the manifest and of the disabling table.                   *)

\* Every variant of parts and of stlOnlyParts.
ManifestVariants ==
    ConcatAll([i \in DOMAIN parts |-> parts[i].variants])
    \o ConcatAll([i \in DOMAIN stlOnlyPartsManifest |-> stlOnlyPartsManifest[i].variants])

\* The pairs the predicates of a variant name.
VariantReferences(p) ==
    (IF HasObject(p, "requires")
     THEN {<<axis, p.requires[axis].v>> : axis \in DOMAIN p.requires} ELSE {})
    \cup (IF HasObject(p, "requiresAny")
          THEN UNION {{<<axis, x.v>> : x \in Range(p.requiresAny[axis])} :
                         axis \in DOMAIN p.requiresAny}
          ELSE {})
    \cup (IF HasObject(p, "excludeIf")
          THEN UNION {{<<axis, x.v>> : x \in Range(p.excludeIf[axis])} :
                         axis \in DOMAIN p.excludeIf}
          ELSE {})

\* The pairs the incompatibleWith maps of the compatibility rules name.
RuleReferences ==
    UNION {UNION {{<<axis, x.v>> : x \in Range(compatibility[k].incompatibleWith[axis])} :
                     axis \in DOMAIN compatibility[k].incompatibleWith} :
              k \in {k \in DOMAIN compatibility : HasObject(compatibility[k], "incompatibleWith")}}

\* configOptions declares the axis and the option id.
Declared(ref) == ref[1] \in DOMAIN configOptions /\ ref[2] \in Range(configOptions[ref[1]])

\* C21: manifest integrity: every axis name and option id used in a
\* requires, requiresAny or excludeIf map of a variant of parts or
\* stlOnlyParts, or in an incompatibleWith map of the compatibility rules,
\* is declared in configOptions.
C21_ManifestIntegrity ==
    /\ \A i \in DOMAIN ManifestVariants : \A ref \in VariantReferences(ManifestVariants[i]) :
          Declared(ref)
    /\ \A ref \in RuleReferences : Declared(ref)

-----------------------------------------------------------------------------
(* Properties of the disabling rules (SpecOptions).                         *)

\* The name of the inputs of a configuration key.
InputNameOf(configKey) ==
    CHOOSE name \in {input.name : input \in OptionRadioInputs \cup OptionCheckboxInputs} :
        ToCamelCase(name) = configKey

\* The compatibility rules that have an incompatibleWith map and whose key
\* is the option selected on some axis.
SelectedRules ==
    {k \in DOMAIN compatibility :
        /\ HasObject(compatibility[k], "incompatibleWith")
        /\ \E key \in DOMAIN config : config[key] = Str(k)}

\* C22: the incompatibleWith rules of the manifest and the disabling table
\* agree: when the key of a rule is the selected option,
\* updateDisabledOptions disables every option the rule's incompatibleWith
\* map lists.
C22_RulesAgree ==
    \A k \in SelectedRules :
       \A axis \in DOMAIN compatibility[k].incompatibleWith :
          \A v \in Range(compatibility[k].incompatibleWith[axis]) :
             shouldDisable(config, InputNameOf(axis), v.v)

\* The manifest has a toolhead board mount for the selected extruder and
\* the board.
HasMount(board) ==
    \E i \in DOMAIN toolheadBoardMounts.variants :
       LET requires == toolheadBoardMounts.variants[i].requires
       IN  /\ requires.extruder = config.extruder
           /\ requires.toolheadBoard = Str(board)

\* C25: with carriage xol-carriage a board option other than 'none' is
\* enabled exactly when the manifest has a toolheadBoardMounts variant for
\* the selected extruder and that board; with any other carriage every
\* board other than 'none' is disabled; in both variants of the script.
C25_BoardMatrix ==
    \A board \in Range(toolheadBoardOptions) \ {"none"} :
       IF config.carriage = Str("xol-carriage")
       THEN ~shouldDisable(config, <<"toolhead", "board">>, board) <=> HasMount(board)
       ELSE shouldDisable(config, <<"toolhead", "board">>, board)

\* C27: when every user action selects an option that
\* updateDisabledOptions leaves enabled, checkCompatibility returns no
\* warning and exactly one cowling is resolved in every configuration
\* reached from the default one.
C27_StaysCompatible ==
    /\ warnings = <<>>
    /\ Len(OfCategory(matchingParts, "cowlings")) = 1

-----------------------------------------------------------------------------
(* Properties of the parts list (SpecFiles).                                *)

\* Two lists hold the same elements the same number of times.
SameMultiset(s, t) ==
    \A x \in Range(s) \cup Range(t) :
       Cardinality({i \in DOMAIN s : s[i] = x}) = Cardinality({i \in DOMAIN t : t[i] = x})

\* The file names of the download list.
DownloadNames == [i \in DOMAIN allFiles |-> LastSegment(allFiles[i].path)]

\* The paths of the download list, each with its STL/3MF choice.
DownloadPaths == [i \in DOMAIN allFiles |->
                     [filePath |-> allFiles[i].path, is3mf |-> Flag(allFiles[i], "is3mf")]]

\* The file names the parts list of app.js shows.
ListedNames ==
    LET list == updatePartsList(matchingParts, stlOnlyParts, config)
    IN  [i \in DOMAIN list |-> list[i].fileName]

\* The paths the parts list of the hash-state variant links to.
ListedPaths ==
    LET list == updatePartsListHashState(matchingParts, stlOnlyParts, config)
    IN  [i \in DOMAIN list |-> [filePath |-> list[i].filePath, is3mf |-> list[i].is3mf]]

\* C23: for every configuration the parts list shows exactly the files of
\* the download list, as multisets: the same file names in app.js, the same
\* paths and the same STL/3MF choice in the hash-state variant, the
\* toolhead board mount included when a board is selected.
C23_ListIsDownload ==
    pc = "done" =>
        /\ SameMultiset(ListedNames, DownloadNames)
        /\ SameMultiset(ListedPaths, DownloadPaths)

-----------------------------------------------------------------------------
(* Properties of the coverage test (SpecFiles).                             *)

\* C24: the coverage test mirrors the application: for every variant of
\* the manifest and every configuration its partMatchesConfig returns what
\* the application's returns, and its getExpectedFiles returns the file
\* list downloadParts builds.
C24_TestMirrorsApp ==
    /\ \A i \in DOMAIN ManifestVariants :
          testPartMatchesConfig(ManifestVariants[i], config)
              = partMatchesConfig(ManifestVariants[i], config)
    /\ pc = "done" => getExpectedFiles(config) = allFiles

-----------------------------------------------------------------------------
(* Properties of the startup of the hash-state variant (SpecPage).          *)

\* The configuration a snapshot gives when its allowlisted keys are
\* applied over the configuration cfg.
Applied(cfg, snapshot) ==
    [k \in Range(validKeys) |->
        IF k \in CarriedKeys(snapshot) THEN Prop(snapshot, "config").v[k] ELSE cfg[k]]

\* DOMContentLoaded read the session storage: the first call is its call
\* of loadStateFromHash, the second its call of loadStateFromSession.
SessionRead == Len(calls) >= 2 /\ calls[2].fn = "loadStateFromSession"

\* The snapshot of a session entry, when it holds one.
HoldsSnapshot(stored) ==
    /\ stored # Null
    /\ parse(stored).ok
    /\ Truthy(parse(stored).value)

\* C26: startup load order: when the URL carries a decodable hash its
\* configuration is applied and session storage is not read; when there is
\* no hash or the hash cannot be decoded, the configuration stored in
\* session storage (if any) is applied, otherwise the defaults stay.
C26_LoadOrder ==
    pc # "input" =>
        IF ~Undecodable(calls[1].input)
        THEN /\ calls[1].after.config
                    = Applied(defaultConfig, decodeHashToState(calls[1].input))
             /\ ~SessionRead
        ELSE /\ calls[1].after.config = defaultConfig
             /\ SessionRead
             /\ calls[2].after.config =
                   IF HoldsSnapshot(calls[2].input)
                   THEN Applied(defaultConfig, parse(calls[2].input).value)
                   ELSE defaultConfig

-----------------------------------------------------------------------------
(* Properties of the scene (SpecViewer).                                    *)

\* The models state.activeModels holds.
ActiveModelObjects == {activeModels[id].model : id \in DOMAIN activeModels}

\* C28: once every started updateViewer run has finished, the models in
\* modelGroup are exactly the values of state.activeModels, one per part
\* id: overlapping runs leave no second model of a part in the scene.
C28_SceneInStep ==
    (pc = "done" /\ \A r \in DOMAIN runs : runs[r].pc = "done") =>
        /\ modelGroup = ActiveModelObjects
        /\ \A m1, m2 \in modelGroup : m1[2] = m2[2] => m1 = m2

-----------------------------------------------------------------------------
(* Properties of the loaded configuration (SpecPage).                       *)

\* The option ids of the axes of state.config.
AxisDomain ==
    [carriage |-> Range(configOptions.carriage),
     hotend |-> Range(configOptions.hotend),
     extruder |-> Range(configOptions.extruder),
     wwbmgSensors |-> Range(wwbmgSensorsOptions),
     wwbmgIdler |-> Range(wwbmgIdlerOptions),
     toolheadBoard |-> Range(toolheadBoardOptions),
     filamentCutter |-> Range(configOptions.filamentCutter)]

\* Every axis of the configuration holds an option id of its domain and
\* hexCowl holds a boolean.
WellFormed(cfg) ==
    /\ \A axis \in DOMAIN AxisDomain :
          /\ axis \in DOMAIN cfg
          /\ cfg[axis].t = "string"
          /\ cfg[axis].v \in AxisDomain[axis]
    /\ "hexCowl" \in DOMAIN cfg
    /\ cfg.hexCowl.t = "boolean"

\* C29: loading a snapshot never corrupts the configuration: after
\* loadStateFromHash or loadStateFromSession returns, whatever decodable
\* content the hash or the session entry carried, every axis of
\* state.config holds an option id of its domain and hexCowl a boolean.
C29_LoadKeepsWellFormed ==
    \A i \in DOMAIN calls :
       (calls[i].result.ok /\ WellFormed(calls[i].before.config))
           => WellFormed(calls[i].after.config)

-----------------------------------------------------------------------------
(* Properties of the file names of the archive (SpecFiles).                 *)

\* C30: downloadParts stores a fetched file under its file name, the
\* directories dropped (the entries of the archive are the file names of
\* the fetched files), and for every configuration, with hexCowl true or
\* false, the file names of the download list are pairwise distinct: the
\* files of the list, all fetched, make as many entries as there are files.
C30_NoNameCollision ==
    pc = "done" =>
        /\ \A i, j \in DOMAIN DownloadNames :
              DownloadNames[i] = DownloadNames[j] => i = j
        /\ Cardinality(Range(DownloadNames)) = Len(allFiles)

\* A list with a hex cowling, the three files of the WW-BMG with two
\* sensors and the crossbow, and a board mount, taken from six
\* directories, was built.
C30_Witness ==
    /\ pc = "done"
    /\ config.hexCowl = Bool(TRUE)
    /\ config.wwbmgSensors = Str("dual-sensors")
    /\ config.filamentCutter = Str("crossbow")
    /\ config.toolheadBoard = Str("xol-pcb")
    /\ Len(allFiles) >= 12
    /\ Cardinality({SubSeq(allFiles[i].path, 1, Len(allFiles[i].path) - Len(DownloadNames[i])) :
                       i \in DOMAIN allFiles}) >= 6
    /\ \E i \in DOMAIN allFiles : Flag(allFiles[i], "is3mf")
=============================================================================
